---------------------------- MODULE Spec2Model ----------------------------
(***************************************************************************)
(* ElliottWaveAnalyzer: monowave construction, option generation, rule     *)
(* checking and the pattern search loop.                                   *)
(*                                                                         *)
(* Prices are positive integers, bar indices start at 0 as in the source.  *)
(* A value the source leaves as Python None is written NoneV (-1).         *)
(***************************************************************************)
EXTENDS Integers, Sequences, FiniteSets, TLC

VARIABLES
    lows, highs,     \* the price series (Low and High columns)
    threshold,       \* the zig-zag threshold, in hundredths
    zigzag_points,   \* what detect_zigzag returned, once it has returned
    diagonals,       \* a call of calculate_diagonals_length and its outcome
    level,           \* a call of calculate_fibonacci_level and its outcome
    wave,            \* the monowave last constructed
    pattern,         \* the WavePattern under check (waves and violation)
    rule,            \* the WaveRule object in use
    checked,         \* outcome of the last check_rule call
    gen,             \* the wave option generator
    rules_to_check,  \* the rules of the impulse search, in order
    phase,           \* position of the search: idle, impulse, corrective, done, aborted
    cursor,          \* index of the next option in options_sorted
    up_cursor,       \* index of the impulse pattern whose correction is sought
    call,            \* arguments of the last analyzer call
    wavepatterns_up,   \* accepted impulse patterns
    wavepatterns_down, \* accepted corrective patterns
    reported,        \* patterns handed to the renderer, in order
    error            \* the exception that ended the run, "" if none

seriesVars == <<lows, highs, threshold, zigzag_points>>
waveVars == <<lows, highs, threshold, zigzag_points, wave>>
ruleVars == <<pattern, rule, checked>>
searchVars == <<rules_to_check, phase, cursor, up_cursor, call,
                wavepatterns_up, wavepatterns_down, reported, error>>
vars == <<lows, highs, threshold, zigzag_points, diagonals, level, wave, pattern, rule, checked,
          gen, rules_to_check, phase, cursor, up_cursor, call, wavepatterns_up,
          wavepatterns_down, reported, error>>

(***************************************************************************)
(* Bounds of the model.                                                    *)
(***************************************************************************)
MaxBars == 4
MaxPrice == 3
MaxSkip == 2

NoneV == 0 - 1

Prices == 1 .. MaxPrice

(***************************************************************************)
(* Extrema locator (models/functions.py: hi, lo, next_hi, next_lo).        *)
(* A series is a function from 0 .. n-1 to prices.  A lookup result is     *)
(* [found, val, idx]; None is "not found" (both outputs None).             *)
(***************************************************************************)
None == [found |-> FALSE, val |-> NoneV, idx |-> NoneV]

Found(v, i) == [found |-> TRUE, val |-> v, idx |-> i]

Min(S) == CHOOSE x \in S : \A y \in S : x <= y

Max(S) == CHOOSE x \in S : \A y \in S : x >= y

\* indices at which the high of the next bar is lower: local highs
LocalHighs(hs) == {i \in DOMAIN hs : (i + 1) \in DOMAIN hs /\ hs[i + 1] < hs[i]}

\* indices at which the low of the next bar is higher: local lows
LocalLows(ls) == {i \in DOMAIN ls : (i + 1) \in DOMAIN ls /\ ls[i + 1] > ls[i]}

hi(ls, hs, idx_start) ==
    LET c == {i \in LocalHighs(hs) : i >= idx_start}
    IN  IF c = {} THEN None ELSE Found(hs[Min(c)], Min(c))

lo(ls, hs, idx_start) ==
    LET c == {i \in LocalLows(ls) : i >= idx_start}
    IN  IF c = {} THEN None ELSE Found(ls[Min(c)], Min(c))

next_hi(ls, hs, idx, prev_high) ==
    LET c == {i \in LocalHighs(hs) : i > idx /\ hs[i] > prev_high}
    IN  IF c = {} THEN None ELSE Found(hs[Min(c)], Min(c))

next_lo(ls, hs, idx, prev_low) ==
    LET c == {i \in LocalLows(ls) : i > idx /\ ls[i] < prev_low}
    IN  IF c = {} THEN None ELSE Found(ls[Min(c)], Min(c))

(***************************************************************************)
(* MonoWaveUp.find_end and MonoWaveDown.find_end.                          *)
(***************************************************************************)
\* np.min(arr[a:b] < x): the minimum of a boolean array, true only when
\* every element of the slice is below x
NpMinOfLess(arr, a, b, x) == \A i \in a .. (b - 1) : arr[i] < x

\* np.max(arr[a:b]) > x
NpMaxGreater(arr, a, b, x) == \E i \in a .. (b - 1) : arr[i] > x

UndercutUp(ls, idx_start, act_high_idx, low_at_start) ==
    NpMinOfLess(ls, idx_start, act_high_idx, low_at_start)

OvershootDown(hs, idx_start, act_low_idx, high_at_start) ==
    NpMaxGreater(hs, idx_start, act_low_idx, high_at_start)

\* the loop with a lookup that finds nothing answered by the last high reached
RECURSIVE UpSkipLoopBestEffort(_, _, _, _, _)
UpSkipLoopBestEffort(ls, hs, idx_start, cur, n) ==
    IF n = 0 THEN cur
    ELSE LET act == next_hi(ls, hs, cur.idx, cur.val)
         IN  IF ~act.found THEN cur
             ELSE IF act.val > cur.val
                  THEN IF UndercutUp(ls, idx_start, act.idx, ls[idx_start])
                       THEN None
                       ELSE UpSkipLoopBestEffort(ls, hs, idx_start, act, n - 1)
                  ELSE UpSkipLoopBestEffort(ls, hs, idx_start, cur, n - 1)

\* the loop reading the adopted value from the lows array
RECURSIVE UpSkipLoopLowsArr(_, _, _, _, _)
UpSkipLoopLowsArr(ls, hs, idx_start, cur, n) ==
    IF n = 0 THEN cur
    ELSE LET act == next_hi(ls, hs, cur.idx, cur.val)
         IN  IF ~act.found THEN None
             ELSE IF act.val > cur.val
                  THEN IF UndercutUp(ls, idx_start, act.idx, ls[idx_start])
                       THEN None
                       ELSE UpSkipLoopLowsArr(ls, hs, idx_start,
                                              Found(ls[act.idx], act.idx), n - 1)
                  ELSE UpSkipLoopLowsArr(ls, hs, idx_start, cur, n - 1)

RECURSIVE UpSkipLoop(_, _, _, _, _)
UpSkipLoop(ls, hs, idx_start, cur, n) ==
    IF n = 0 THEN cur
    ELSE LET act == next_hi(ls, hs, cur.idx, cur.val)
         IN  IF ~act.found THEN None
             ELSE IF act.val > cur.val
                  THEN IF UndercutUp(ls, idx_start, act.idx, ls[idx_start])
                       THEN None
                       ELSE UpSkipLoop(ls, hs, idx_start, act, n - 1)
                  ELSE UpSkipLoop(ls, hs, idx_start, cur, n - 1)

\* find_end validating the first local high against the lows before it
MonoWaveUp_find_end_validated(ls, hs, idx_start, skip_n) ==
    LET first == hi(ls, hs, idx_start)
    IN  IF ~first.found THEN None
        ELSE IF \E i \in idx_start .. (first.idx - 1) : ls[i] < ls[idx_start]
             THEN None
             ELSE UpSkipLoop(ls, hs, idx_start, first, skip_n)

MonoWaveUp_find_end(ls, hs, idx_start, skip_n) ==
    LET first == hi(ls, hs, idx_start)
    IN  IF ~first.found THEN None
        ELSE UpSkipLoop(ls, hs, idx_start, first, skip_n)

\* the loop without the check of the highs passed over
RECURSIVE DownSkipLoopUnchecked(_, _, _, _, _)
DownSkipLoopUnchecked(ls, hs, idx_start, cur, n) ==
    IF n = 0 THEN cur
    ELSE LET act == next_lo(ls, hs, cur.idx, cur.val)
         IN  IF ~act.found THEN None
             ELSE IF act.val < cur.val
                  THEN DownSkipLoopUnchecked(ls, hs, idx_start, act, n - 1)
                  ELSE DownSkipLoopUnchecked(ls, hs, idx_start, cur, n - 1)

RECURSIVE DownSkipLoop(_, _, _, _, _)
DownSkipLoop(ls, hs, idx_start, cur, n) ==
    IF n = 0 THEN cur
    ELSE LET act == next_lo(ls, hs, cur.idx, cur.val)
         IN  IF ~act.found THEN None
             ELSE IF act.val < cur.val
                  THEN IF OvershootDown(hs, idx_start, act.idx, hs[idx_start])
                       THEN None
                       ELSE DownSkipLoop(ls, hs, idx_start, act, n - 1)
                  ELSE DownSkipLoop(ls, hs, idx_start, cur, n - 1)

MonoWaveDown_find_end(ls, hs, idx_start, skip_n) ==
    LET first == lo(ls, hs, idx_start)
    IN  IF ~first.found THEN None
        ELSE DownSkipLoop(ls, hs, idx_start, first, skip_n)

(***************************************************************************)
(* MonoWaveUp.__init__ and MonoWaveDown.__init__.                          *)
(***************************************************************************)
NoWave ==
    [dir |-> "none", skip_n |-> 0, idx_start |-> NoneV, idx_end |-> NoneV,
     low |-> NoneV, high |-> NoneV, low_idx |-> NoneV, high_idx |-> NoneV]

MonoWaveUp(ls, hs, idx_start, skip) ==
    LET e == MonoWaveUp_find_end(ls, hs, idx_start, skip)
    IN  [dir |-> "up", skip_n |-> skip, idx_start |-> idx_start,
         idx_end |-> e.idx, low |-> ls[idx_start], high |-> e.val,
         low_idx |-> idx_start, high_idx |-> e.idx]

MonoWaveDown(ls, hs, idx_start, skip) ==
    LET e == MonoWaveDown_find_end(ls, hs, idx_start, skip)
    IN  [dir |-> "down", skip_n |-> skip, idx_start |-> idx_start,
         idx_end |-> e.idx, low |-> e.val, high |-> hs[idx_start],
         low_idx |-> e.idx, high_idx |-> idx_start]

Resolved(w) == w.dir # "none" /\ w.idx_end # NoneV

\* values of the rule variables while no rule check is modelled
NoPattern == [waves |-> <<>>, idx_start |-> NoneV, idx_end |-> NoneV,
              violation |-> "", oid |-> 0]

NoRule == [cls |-> "none", x_y_ratio |-> 0]

NotChecked == [done |-> FALSE, ok |-> FALSE, evaluated |-> <<>>]

RuleIdle == pattern = NoPattern /\ rule = NoRule /\ checked = NotChecked

\* values of the generator and search variables outside a search
NoGen == [n |-> 0, up_from |-> 0, up_to |-> 0, options |-> <<>>, fresh |-> FALSE]

NoCall == [kind |-> "none", idx_start |-> NoneV, wave_config |-> <<>>]

GenIdle == gen = NoGen

\* no exception raised
NoError == ""

\* detect_zigzag not called
NoZigzag == [returned |-> FALSE, points |-> <<>>]

ZigzagIdle == threshold = 0 /\ zigzag_points = NoZigzag

\* calculate_diagonals_length not called
NoDiagonals == [called |-> FALSE]

DiagonalsIdle == diagonals = NoDiagonals

NoLevel == [called |-> FALSE]

LevelIdle == level = NoLevel

SearchIdle ==
    /\ rules_to_check = <<>>
    /\ phase = "idle"
    /\ cursor = 0
    /\ up_cursor = 0
    /\ call = NoCall
    /\ wavepatterns_up = <<>>
    /\ wavepatterns_down = <<>>
    /\ reported = <<>>
    /\ error = NoError

(***************************************************************************)
(* Monowave construction over a price series.  The series is every series  *)
(* of MaxBars bars over Prices with low <= high, or one of the longer      *)
(* series of DeepSeries.                                                   *)
(***************************************************************************)
BarIdx == 0 .. (MaxBars - 1)

Series ==
    {s \in [BarIdx -> Prices \X Prices] : \A i \in BarIdx : s[i][1] <= s[i][2]}

ZeroBased(sq) == [i \in 0 .. (Len(sq) - 1) |-> sq[i + 1]]

\* series with three successive higher highs / lower lows, and the 6-bar
\* series of the documentation
DeepSeries ==
    { [l |-> ZeroBased(<<1, 1, 1, 1, 1, 1>>), h |-> ZeroBased(<<2, 1, 3, 1, 4, 1>>)],
      [l |-> ZeroBased(<<2, 1, 2, 1, 2, 1>>), h |-> ZeroBased(<<2, 1, 3, 1, 4, 1>>)],
      [l |-> ZeroBased(<<3, 4, 2, 4, 1, 4>>), h |-> ZeroBased(<<4, 4, 4, 4, 4, 4>>)],
      [l |-> ZeroBased(<<3, 4, 2, 4, 1, 4>>), h |-> ZeroBased(<<4, 5, 4, 5, 4, 5>>)],
      [l |-> ZeroBased(<<10, 10, 8, 8, 12, 12>>),
       h |-> ZeroBased(<<11, 11, 9, 15, 13, 20>>)] }

WaveInit ==
    /\ \/ \E s \in Series :
             /\ lows = [i \in BarIdx |-> s[i][1]]
             /\ highs = [i \in BarIdx |-> s[i][2]]
       \/ \E d \in DeepSeries :
             /\ lows = d.l
             /\ highs = d.h
    /\ ZigzagIdle
    /\ wave = NoWave
    /\ RuleIdle
    /\ GenIdle
    /\ DiagonalsIdle
    /\ LevelIdle
    /\ SearchIdle

NewMonoWaveUp ==
    \E i \in DOMAIN lows, k \in 0 .. MaxSkip :
       /\ wave = NoWave
       /\ wave' = MonoWaveUp(lows, highs, i, k)
       /\ UNCHANGED <<seriesVars, diagonals, level, pattern, rule, checked, gen, searchVars>>

NewMonoWaveDown ==
    \E i \in DOMAIN lows, k \in 0 .. MaxSkip :
       /\ wave = NoWave
       /\ wave' = MonoWaveDown(lows, highs, i, k)
       /\ UNCHANGED <<seriesVars, diagonals, level, pattern, rule, checked, gen, searchVars>>

\* a monowave is built per candidate and dropped afterwards
DiscardWave ==
    /\ wave # NoWave
    /\ wave' = NoWave
    /\ UNCHANGED <<seriesVars, diagonals, level, pattern, rule, checked, gen, searchVars>>

WaveNext == NewMonoWaveUp \/ NewMonoWaveDown \/ DiscardWave

SpecWave == WaveInit /\ [][WaveNext]_vars

(***************************************************************************)
(* Properties of monowave construction.                                    *)
(***************************************************************************)
\* the extremum reached by k successive next-more-extreme lookups
RECURSIVE UpChain(_, _, _, _)
UpChain(ls, hs, idx_start, k) ==
    IF k = 0 THEN hi(ls, hs, idx_start)
    ELSE LET p == UpChain(ls, hs, idx_start, k - 1)
         IN  IF ~p.found THEN None ELSE next_hi(ls, hs, p.idx, p.val)

RECURSIVE DownChain(_, _, _, _)
DownChain(ls, hs, idx_start, k) ==
    IF k = 0 THEN lo(ls, hs, idx_start)
    ELSE LET p == DownChain(ls, hs, idx_start, k - 1)
         IN  IF ~p.found THEN None ELSE next_lo(ls, hs, p.idx, p.val)

\* C1: a resolved up-wave that advanced its high by a skip has no low under
\* its starting low between idx_start and high_idx.
C1_NoUndercutAfterSkip ==
    (/\ wave.dir = "up"
     /\ Resolved(wave)
     /\ wave.skip_n >= 1
     /\ wave.high_idx # hi(lows, highs, wave.idx_start).idx)
    => \A i \in wave.idx_start .. (wave.high_idx - 1) :
          lows[i] >= lows[wave.idx_start]

\* some skip iteration j < skip_n, reached with all earlier lookups found,
\* reports not found
LookupFailsUp(w) ==
    \E j \in 0 .. (w.skip_n - 1) :
       /\ UpChain(lows, highs, w.idx_start, j).found
       /\ ~UpChain(lows, highs, w.idx_start, j + 1).found

LookupFailsDown(w) ==
    \E j \in 0 .. (w.skip_n - 1) :
       /\ DownChain(lows, highs, w.idx_start, j).found
       /\ ~DownChain(lows, highs, w.idx_start, j + 1).found

\* C2: in both directions, a skip iteration whose next-more-extreme lookup
\* reports not found fails the whole wave: value and index are both
\* unresolved, whatever the earlier iterations reached.
C2_SkipExactlySatisfied ==
    /\ (wave.dir = "up" /\ LookupFailsUp(wave))
          => (wave.high = NoneV /\ wave.high_idx = NoneV /\ wave.idx_end = NoneV)
    /\ (wave.dir = "down" /\ LookupFailsDown(wave))
          => (wave.low = NoneV /\ wave.low_idx = NoneV /\ wave.idx_end = NoneV)

\* an up-wave with skip 2 whose first skip lookup found a higher high and
\* whose second found nothing
C2_Witness ==
    /\ wave.dir = "up"
    /\ wave.skip_n = 2
    /\ UpChain(lows, highs, wave.idx_start, 1).found
    /\ ~UpChain(lows, highs, wave.idx_start, 2).found
    /\ wave.idx_end = NoneV

\* C3: for the same series and start index, a resolved wave built with a
\* larger skip count has a high >= (up) / a low <= (down) that of every
\* resolved wave built with a smaller skip count.
C3_SkipMonotone ==
    /\ (wave.dir = "up" /\ Resolved(wave))
          => \A k \in 0 .. (wave.skip_n - 1) :
                LET w == MonoWaveUp(lows, highs, wave.idx_start, k)
                IN  Resolved(w) => wave.high >= w.high
    /\ (wave.dir = "down" /\ Resolved(wave))
          => \A k \in 0 .. (wave.skip_n - 1) :
                LET w == MonoWaveDown(lows, highs, wave.idx_start, k)
                IN  Resolved(w) => wave.low <= w.low

\* a resolved up-wave with skip 2 next to the resolved waves with skip 0 and 1
C3_Witness ==
    /\ wave.dir = "up"
    /\ Resolved(wave)
    /\ wave.skip_n = 2
    /\ Resolved(MonoWaveUp(lows, highs, wave.idx_start, 0))
    /\ Resolved(MonoWaveUp(lows, highs, wave.idx_start, 1))
    /\ wave.high > MonoWaveUp(lows, highs, wave.idx_start, 1).high

(***************************************************************************)
(* calculate_fibonacci_level (models/WaveTools.py) in the arithmetic the   *)
(* interpreter uses: Python floats are IEEE 754 binary64, every operation  *)
(* is rounded to MantissaBits significant bits, ties to even.  A natural   *)
(* number is a sequence of limbs of LimbBits bits, least significant       *)
(* first, without leading zero limbs; a float is [neg, mag] with the       *)
(* magnitude in units of 2^-(LimbBits * ScaleLimbs), so that every value   *)
(* met here is an integer of such units.                                   *)
(***************************************************************************)
MantissaBits == 53
LimbBits == 16
ScaleLimbs == 6

Base == 2 ^ LimbBits

RECURSIVE Trim(_)
Trim(a) ==
    IF a = <<>> THEN <<>>
    ELSE IF a[Len(a)] = 0 THEN Trim(SubSeq(a, 1, Len(a) - 1))
    ELSE a

\* the limbs of a natural number below Base * Base
NatOf(n) == Trim(<<n % Base, n \div Base>>)

Zeros(n) == [i \in 1 .. n |-> 0]

Limb(a, i) == IF i <= Len(a) THEN a[i] ELSE 0

RECURSIVE AddFrom(_, _, _, _)
AddFrom(a, b, i, carry) ==
    IF carry = 0 /\ i > Len(a) /\ i > Len(b) THEN <<>>
    ELSE <<(Limb(a, i) + Limb(b, i) + carry) % Base>>
         \o AddFrom(a, b, i + 1, (Limb(a, i) + Limb(b, i) + carry) \div Base)

BigAdd(a, b) == AddFrom(a, b, 1, 0)

\* a - b for a >= b
RECURSIVE SubFrom(_, _, _, _)
SubFrom(a, b, i, borrow) ==
    IF borrow = 0 /\ i > Len(a) THEN <<>>
    ELSE <<(Limb(a, i) - Limb(b, i) - borrow + Base) % Base>>
         \o SubFrom(a, b, i + 1, IF Limb(a, i) - Limb(b, i) - borrow < 0 THEN 1 ELSE 0)

BigSub(a, b) == Trim(SubFrom(a, b, 1, 0))

RECURSIVE LessFrom(_, _, _)
LessFrom(a, b, i) ==
    IF i = 0 THEN FALSE
    ELSE IF a[i] # b[i] THEN a[i] < b[i]
    ELSE LessFrom(a, b, i - 1)

BigLess(a, b) ==
    IF Len(a) # Len(b) THEN Len(a) < Len(b) ELSE LessFrom(a, b, Len(a))

\* a times the natural number n, n < 2^14
RECURSIVE MulFrom(_, _, _, _)
MulFrom(a, n, i, carry) ==
    IF carry = 0 /\ i > Len(a) THEN <<>>
    ELSE <<(Limb(a, i) * n + carry) % Base>>
         \o MulFrom(a, n, i + 1, (Limb(a, i) * n + carry) \div Base)

BigMul(a, n) == Trim(MulFrom(a, n, 1, 0))

\* number of bits of a, and bit p of a (bit 1 is the least significant)
Width(x) == CHOOSE w \in 0 .. LimbBits : (w = 0 \/ (2 ^ (w - 1)) <= x) /\ x < (2 ^ w)

BitLen(a) == IF a = <<>> THEN 0 ELSE LimbBits * (Len(a) - 1) + Width(a[Len(a)])

BitAt(a, p) ==
    (Limb(a, ((p - 1) \div LimbBits) + 1) \div (2 ^ ((p - 1) % LimbBits))) % 2

\* a with its k lowest bits cleared; whether they are all 0
ClearLow(a, k) ==
    [i \in 1 .. Len(a) |->
        IF i <= (k \div LimbBits) THEN 0
        ELSE IF i = (k \div LimbBits) + 1 THEN a[i] - (a[i] % (2 ^ (k % LimbBits)))
        ELSE a[i]]

LowZero(a, k) == ClearLow(a, k) = a

\* 2^k
PowerOfTwo(k) == Zeros(k \div LimbBits) \o <<2 ^ (k % LimbBits)>>

\* round to nearest, ties to even: the k bits below the MantissaBits leading
\* ones are dropped; sticky tells that the exact value has more below bit 1
RoundUp(a, k, sticky) ==
    /\ BitAt(a, k) = 1
    /\ \/ sticky
       \/ ~LowZero(a, k - 1)
       \/ BitAt(a, k + 1) = 1

RoundBits(a, k, sticky) ==
    IF RoundUp(a, k, sticky)
    THEN BigAdd(ClearLow(a, k), PowerOfTwo(k))
    ELSE ClearLow(a, k)

RoundMag(a, sticky) ==
    IF BitLen(a) <= MantissaBits THEN a
    ELSE RoundBits(a, BitLen(a) - MantissaBits, sticky)

Float(neg, mag) == [neg |-> neg /\ mag # <<>>, mag |-> mag]

\* int to float (exact for the integers met here)
FromInt(n) ==
    IF n = 0 THEN Float(FALSE, <<>>)
    ELSE Float(n < 0, Zeros(ScaleLimbs) \o NatOf(IF n < 0 THEN 0 - n ELSE n))

\* the limbs of rem / den after the point, the first of them last
RECURSIVE ExpandL(_, _, _)
ExpandL(rem, den, n) ==
    IF n = 0 THEN <<>>
    ELSE ExpandL((Base * rem) % den, den, n - 1) \o <<(Base * rem) \div den>>

RECURSIVE RemAfter(_, _, _)
RemAfter(rem, den, n) ==
    IF n = 0 THEN rem ELSE RemAfter((Base * rem) % den, den, n - 1)

\* num / den for ints num >= 0 and 0 < den < 2^14, rounded: the float of a
\* decimal literal, and the true division of two ints
DoubleOf(num, den) ==
    Float(FALSE,
          RoundMag(Trim(ExpandL(num % den, den, ScaleLimbs) \o NatOf(num \div den)),
                   RemAfter(num % den, den, ScaleLimbs) # 0))

\* x + y without rounding
ExactAdd(x, y) ==
    IF x.neg = y.neg THEN Float(x.neg, BigAdd(x.mag, y.mag))
    ELSE IF BigLess(x.mag, y.mag) THEN Float(y.neg, BigSub(y.mag, x.mag))
    ELSE Float(x.neg, BigSub(x.mag, y.mag))

Round(x) == Float(x.neg, RoundMag(x.mag, FALSE))

\* x + y on floats
FloatAdd(x, y) == Round(ExactAdd(x, y))

\* x - y on floats
FloatSub(x, y) == FloatAdd(x, Float(~y.neg, y.mag))

\* a times b, limb by limb of b (a limb of b in two halves, so that no
\* product leaves the machine integers of the checker)
RECURSIVE TimesFrom(_, _, _)
TimesFrom(a, b, j) ==
    IF j > Len(b) THEN <<>>
    ELSE BigAdd(Zeros(j - 1)
                  \o BigAdd(BigMul(BigMul(a, b[j] \div 256), 256),
                            BigMul(a, b[j] % 256)),
                TimesFrom(a, b, j + 1))

BigTimes(a, b) == Trim(TimesFrom(a, b, 1))

\* n * x for an int n and a float x: n is converted (exactly) and the
\* product rounded
FloatMul(n, x) ==
    Round(Float((n < 0) # x.neg,
                BigTimes(x.mag, NatOf(IF n < 0 THEN 0 - n ELSE n))))

\* a magnitude in units of 2^-(2 * LimbBits * ScaleLimbs), rounded and
\* brought back to the unit of floats
DropLimbs(r) ==
    IF Len(r) <= ScaleLimbs THEN <<>> ELSE SubSeq(r, ScaleLimbs + 1, Len(r))

Rescale(a, sticky) == DropLimbs(RoundMag(a, sticky))

\* x * y on floats
FloatTimes(x, y) ==
    Float(x.neg # y.neg, Rescale(BigTimes(x.mag, y.mag), FALSE))

\* the largest digit d in least .. most with (r + d * Base^(j-1))^2 <= m
RECURSIVE SqrtDigit(_, _, _, _, _)
SqrtDigit(m, r, j, least, most) ==
    IF least >= most THEN least
    ELSE IF BigLess(m, BigTimes(Trim([r EXCEPT ![j] = (least + most + 1) \div 2]),
                                Trim([r EXCEPT ![j] = (least + most + 1) \div 2])))
    THEN SqrtDigit(m, r, j, least, ((least + most + 1) \div 2) - 1)
    ELSE SqrtDigit(m, r, j, (least + most + 1) \div 2, most)

RECURSIVE SqrtFrom(_, _, _)
SqrtFrom(m, r, j) ==
    IF j = 0 THEN r
    ELSE SqrtFrom(m, [r EXCEPT ![j] = SqrtDigit(m, r, j, 0, Base - 1)], j - 1)

\* the integer square root of m
BigSqrt(m) ==
    Trim(SqrtFrom(m, Zeros((Len(m) + 1) \div 2), (Len(m) + 1) \div 2))

\* the root r of m, rounded: inexact when r * r is not m
RootRounded(m, r) == Float(FALSE, RoundMag(r, BigTimes(r, r) # m))

\* math.sqrt(x) for x >= 0: the root of the exact value, rounded once
FloatSqrt(x) ==
    RootRounded(Trim(Zeros(ScaleLimbs) \o x.mag),
                BigSqrt(Trim(Zeros(ScaleLimbs) \o x.mag)))

\* x < y on floats
FloatLess(x, y) ==
    IF x.neg # y.neg THEN x.neg
    ELSE IF x.neg THEN BigLess(y.mag, x.mag)
    ELSE BigLess(x.mag, y.mag)

\* the high_to_low level measured from the low
fibonacci_level_from_low(low, high, fib_ratio, mode) ==
    IF mode = "low_to_high"
    THEN [raised |-> FALSE,
          value |-> FloatAdd(FromInt(low), FloatMul(high - low, fib_ratio))]
    ELSE IF mode = "high_to_low"
    THEN [raised |-> FALSE,
          value |-> FloatSub(FromInt(low), FloatMul(high - low, fib_ratio))]
    ELSE [raised |-> TRUE, value |-> FromInt(0)]

\* the two modes exchanged
fibonacci_level_swapped(low, high, fib_ratio, mode) ==
    IF mode = "high_to_low"
    THEN [raised |-> FALSE,
          value |-> FloatAdd(FromInt(low), FloatMul(high - low, fib_ratio))]
    ELSE IF mode = "low_to_high"
    THEN [raised |-> FALSE,
          value |-> FloatSub(FromInt(high), FloatMul(high - low, fib_ratio))]
    ELSE [raised |-> TRUE, value |-> FromInt(0)]

\* calculate_fibonacci_level: [raised, value]; fib_ratio is a float
calculate_fibonacci_level(low, high, fib_ratio, mode) ==
    IF mode = "low_to_high"
    THEN [raised |-> FALSE,
          value |-> FloatAdd(FromInt(low), FloatMul(high - low, fib_ratio))]
    ELSE IF mode = "high_to_low"
    THEN [raised |-> FALSE,
          value |-> FloatSub(FromInt(high), FloatMul(high - low, fib_ratio))]
    ELSE [raised |-> TRUE, value |-> FromInt(0)]


(***************************************************************************)
(* Geometry (models/WaveTools.py, MonoWave properties).  Ratios are kept   *)
(* as integers: x_y_ratio in tenths (1.7 is 17), Fibonacci ratios and      *)
(* length factors in hundredths or thousandths; the squares of the lengths *)
(* are kept exactly over a common denominator.                             *)
(***************************************************************************)
DefaultXY == 17
ToolsDefaultXY == 18

Abs(x) == IF x < 0 THEN 0 - x ELSE x

Max2(a, b) == IF a >= b THEN a ELSE b

length(w) == Abs(w.high - w.low)

duration(w) == w.idx_end - w.idx_start

\* MonoWaveUp.points is (low, high), MonoWaveDown.points is (high, low)
points(w) == IF w.dir = "up" THEN <<w.low, w.high>> ELSE <<w.high, w.low>>

\* [err, len1, len2]: the squares of the two lengths, both times
\* (10 * max_x * max_height)^2; err when a maximum is 0 or the smaller
\* length is 0 (division by zero in the normalisation or in the report)
calculate_diagonals_length(wave1, wave2, x_to_y_ratio) ==
    LET width1 == duration(wave1)
        width2 == duration(wave2)
        height1 == Abs(points(wave1)[2] - points(wave1)[1])
        height2 == Abs(points(wave2)[2] - points(wave2)[1])
        max_x == Max2(width1, width2)
        max_height == Max2(height1, height2)
        sq(width, height) ==
            (x_to_y_ratio * width * max_height) * (x_to_y_ratio * width * max_height)
            + (10 * height * max_x) * (10 * height * max_x)
    IN  [err |-> (max_x = 0 \/ max_height = 0
                  \/ sq(width1, height1) = 0 \/ sq(width2, height2) = 0),
         len1 |-> sq(width1, height1),
         len2 |-> sq(width2, height2)]

\* p1 / q1 < p2 / q2 for naturals with q1, q2 > 0, by continued fractions
\* (no product of the four numbers is formed)
RECURSIVE FracLess(_, _, _, _)
FracLess(p1, q1, p2, q2) ==
    IF p1 \div q1 # p2 \div q2 THEN p1 \div q1 < p2 \div q2
    ELSE IF p2 % q2 = 0 THEN FALSE
    ELSE IF p1 % q1 = 0 THEN TRUE
    ELSE FracLess(q2, p2 % q2, q1, p1 % q1)

FracEq(p1, q1, p2, q2) == ~FracLess(p1, q1, p2, q2) /\ ~FracLess(p2, q2, p1, q1)

(***************************************************************************)
(* Outcomes and comparisons.  An evaluation returns a value or raises an   *)
(* exception.  The two sides of a comparison of the rules are floats, the  *)
(* roundings of rationals with small denominators.  When the exact values  *)
(* differ, they differ by far more than the rounding of the operations     *)
(* (a relative gap above 2^-46 on the integers of the model, against a few *)
(* units of 2^-53), and the exact values decide; when the exact values     *)
(* are equal, the floats are computed operation by operation as the        *)
(* interpreter does, and the floats decide.                                *)
(***************************************************************************)
Returns(v) == [err |-> NoError, value |-> v]

Raises(e) == [err |-> e, value |-> FALSE]

Holds(o) == o.err = NoError /\ o.value

\* a and b: b is evaluated only when a returned True
AndThen(a, b) == IF Holds(a) THEN b ELSE a

\* n > k * m for ints n, m and the float literal k = kn / kd
ExceedsTimes(n, kn, kd, m) ==
    IF kd * n = kn * m
    THEN FloatLess(FloatMul(m, DoubleOf(kn, kd)), FromInt(n))
    ELSE kd * n > kn * m

\* n >= k * m
ReachesTimes(n, kn, kd, m) ==
    IF kd * n = kn * m
    THEN ~FloatLess(FromInt(n), FloatMul(m, DoubleOf(kn, kd)))
    ELSE kd * n > kn * m

\* n < k * m
BelowTimes(n, kn, kd, m) ==
    IF kd * n = kn * m
    THEN FloatLess(FromInt(n), FloatMul(m, DoubleOf(kn, kd)))
    ELSE kd * n < kn * m

\* a length of calculate_diagonals_length as the float the code returns:
\* sqrt((width / max_x * x_to_y_ratio) ** 2 + (height / max_height) ** 2)
FloatLength(width, height, max_x, max_height, x_to_y_ratio) ==
    FloatSqrt(
        FloatAdd(
            FloatTimes(FloatTimes(DoubleOf(width, max_x), DoubleOf(x_to_y_ratio, 10)),
                       FloatTimes(DoubleOf(width, max_x), DoubleOf(x_to_y_ratio, 10))),
            FloatTimes(DoubleOf(height, max_height), DoubleOf(height, max_height))))

\* the float length of w, one of the pair
LengthOf(w, wave1, wave2, x_to_y_ratio) ==
    FloatLength(duration(w), length(w),
                Max2(duration(wave1), duration(wave2)),
                Max2(length(wave1), length(wave2)), x_to_y_ratio)

\* two waves of the same width and height: the same operations on the
\* same operands, so the same float for both
SameShape(wave1, wave2) ==
    duration(wave1) = duration(wave2) /\ length(wave1) = length(wave2)

\* wave1_len > wave2_len * fib_ratio on the lengths d of the pair;
\* fib_ratio in hundredths, 0 for None (no factor)
LongerBy(d, wave1, wave2, x_to_y_ratio, fib_ratio) ==
    IF d.err THEN Raises("ZeroDivisionError")
    ELSE IF fib_ratio = 0
    THEN Returns(IF SameShape(wave1, wave2) THEN FALSE
                 ELSE IF d.len1 = d.len2
                 THEN FloatLess(LengthOf(wave2, wave1, wave2, x_to_y_ratio),
                                LengthOf(wave1, wave1, wave2, x_to_y_ratio))
                 ELSE d.len1 > d.len2)
    ELSE Returns(IF FracEq(fib_ratio * fib_ratio, 100 * 100, d.len1, d.len2)
                 THEN FloatLess(FloatTimes(LengthOf(wave2, wave1, wave2, x_to_y_ratio),
                                           DoubleOf(fib_ratio, 100)),
                                LengthOf(wave1, wave1, wave2, x_to_y_ratio))
                 ELSE FracLess(fib_ratio * fib_ratio, 100 * 100, d.len1, d.len2))

\* wave1_len < wave2_len * fib_ratio
ShorterBy(d, wave1, wave2, x_to_y_ratio, fib_ratio) ==
    IF d.err THEN Raises("ZeroDivisionError")
    ELSE IF fib_ratio = 0
    THEN Returns(IF SameShape(wave1, wave2) THEN FALSE
                 ELSE IF d.len1 = d.len2
                 THEN FloatLess(LengthOf(wave1, wave1, wave2, x_to_y_ratio),
                                LengthOf(wave2, wave1, wave2, x_to_y_ratio))
                 ELSE d.len1 < d.len2)
    ELSE Returns(IF FracEq(fib_ratio * fib_ratio, 100 * 100, d.len1, d.len2)
                 THEN FloatLess(LengthOf(wave1, wave1, wave2, x_to_y_ratio),
                                FloatTimes(LengthOf(wave2, wave1, wave2, x_to_y_ratio),
                                           DoubleOf(fib_ratio, 100)))
                 ELSE FracLess(d.len1, d.len2, fib_ratio * fib_ratio, 100 * 100))

\* WaveTools.wave1_longer_than_wave2: the default x_to_y_ratio of the tool
wave1_longer_than_wave2(wave1, wave2) ==
    LongerBy(calculate_diagonals_length(wave1, wave2, ToolsDefaultXY),
             wave1, wave2, ToolsDefaultXY, 0)

\* fib_ratio in hundredths, 0 for None
is_wave1_diagonal_longer_than_wave2(wave1, wave2, fib_ratio, x_y_ratio) ==
    LongerBy(calculate_diagonals_length(wave1, wave2, x_y_ratio),
             wave1, wave2, x_y_ratio, fib_ratio)

is_wave1_diagonal_shorter_than_wave2(wave1, wave2, fib_ratio, x_y_ratio) ==
    ShorterBy(calculate_diagonals_length(wave1, wave2, x_y_ratio),
              wave1, wave2, x_y_ratio, fib_ratio)

\* MonoWave.diagonal_length squared is DiagonalLengthNum / DiagonalLengthDen
\* (percent change is (high - low) / low * 100, or 0 when low is 0)
DiagonalLengthNum(w) ==
    IF w.low # 0
    THEN duration(w) * duration(w) * w.low * w.low
         + (100 * (w.high - w.low)) * (100 * (w.high - w.low))
    ELSE duration(w) * duration(w)

DiagonalLengthDen(w) == IF w.low # 0 THEN w.low * w.low ELSE 1

\* ((high - low) / low) * 100, or the int 0
percent_change(w) ==
    IF w.low # 0 THEN FloatMul(100, DoubleOf(w.high - w.low, w.low)) ELSE FromInt(0)

\* MonoWave.diagonal_length as the float the property returns
diagonal_length(w) ==
    FloatSqrt(FloatAdd(FromInt(duration(w) * duration(w)),
                       FloatTimes(percent_change(w), percent_change(w))))

\* a.diagonal_length * 0.24 < b.diagonal_length < a.diagonal_length
diagonal_length_between(a, b) ==
    /\ IF FracEq(6 * 6 * DiagonalLengthNum(a), DiagonalLengthDen(a),
                 25 * 25 * DiagonalLengthNum(b), DiagonalLengthDen(b))
       THEN FloatLess(FloatTimes(diagonal_length(a), DoubleOf(24, 100)),
                      diagonal_length(b))
       ELSE FracLess(6 * 6 * DiagonalLengthNum(a), DiagonalLengthDen(a),
                     25 * 25 * DiagonalLengthNum(b), DiagonalLengthDen(b))
    /\ IF FracEq(DiagonalLengthNum(b), DiagonalLengthDen(b),
                 DiagonalLengthNum(a), DiagonalLengthDen(a))
       THEN FloatLess(diagonal_length(b), diagonal_length(a))
       ELSE FracLess(DiagonalLengthNum(b), DiagonalLengthDen(b),
                     DiagonalLengthNum(a), DiagonalLengthDen(a))

(***************************************************************************)
(* Rule tables (models/WaveRules.py).  A table is the sequence of its      *)
(* condition ids in dictionary order; W[n] is the wave labelled "wave<n>". *)
(* Messages written in Korean in the source are rendered in English.       *)
(***************************************************************************)
ImpulseConditions ==
    <<"w2_1", "w2_2", "w2_3", "w3_1", "w3_2", "w3_3", "w3_4", "w3_5",
      "w4_1", "w4_2", "w5_1", "w5_2">>

ImpulseFunction(c, W) ==
    CASE c = "w2_1" -> Returns(W[2].low > W[1].low)
      [] c = "w2_2" -> Returns(ReachesTimes(length(W[2]), 2, 10, length(W[1])))
      [] c = "w2_3" -> Returns(9 * duration(W[2]) > duration(W[1]))
      [] c = "w3_1" -> Returns(~(length(W[3]) < length(W[5]) /\ length(W[3]) < length(W[1])))
      [] c = "w3_2" -> Returns(W[3].high > W[1].high)
      [] c = "w3_3" -> Returns(3 * length(W[3]) >= length(W[1]))
      [] c = "w3_4" -> Returns(length(W[3]) > length(W[2]))
      [] c = "w3_5" -> Returns(7 * duration(W[3]) > duration(W[1]))
      [] c = "w4_1" -> Returns(W[4].low > W[1].high)
      [] c = "w4_2" -> Returns(3 * length(W[4]) > length(W[2]))
      [] c = "w5_1" -> Returns(W[3].high < W[5].high)
      [] c = "w5_2" -> Returns(length(W[5]) < 2 * length(W[1]))

ImpulseMessage(c) ==
    CASE c = "w2_1" -> "End of Wave2 is lower than Start of Wave1."
      [] c = "w2_2" -> "Wave2 is shorten than 20% of Wave1."
      [] c = "w2_3" -> "Wave2 is longer than 9x Wave1"
      [] c = "w3_1" -> "Wave3 is the shortest Wave."
      [] c = "w3_2" -> "End of Wave3 is lower than End of Wave1"
      [] c = "w3_3" -> "Wave3 is shorter than 1/3 of Wave1"
      [] c = "w3_4" -> "Wave3 shorter than Wave2"
      [] c = "w3_5" -> "Wave3 more than 7 times longer than Wave1."
      [] c = "w4_1" -> "End of Wave4 is lower than End of Wave1"
      [] c = "w4_2" -> "Length of Wave4 is shorter than 1/3 of End of Wave1"
      [] c = "w5_1" -> "End of Wave5 is lower than End of Wave3"
      [] c = "w5_2" -> "Wave5 is longer (value wise) than Wave1"

CorrectionConditions ==
    <<"w2_1", "w2_2", "w2_3", "w2_4", "w2_5", "w2_6", "w2_7", "w3_1", "w3_2">>

CorrectionFunction(c, W) ==
    CASE c = "w2_1" -> Returns(W[1].high > W[2].high)
      [] c = "w2_2" -> Returns(W[1].low > W[3].low)
      [] c = "w2_3" -> Returns(length(W[1]) > length(W[2]))
      [] c = "w2_4" -> Returns(duration(W[2]) < 10 * duration(W[1]))
      [] c = "w2_5" -> Returns(ExceedsTimes(length(W[3]), 6, 10, length(W[1])))
      [] c = "w2_6" -> Returns(BelowTimes(length(W[3]), 261, 100, length(W[1])))
      [] c = "w2_7" -> Returns(BelowTimes(length(W[2]), 618, 1000, length(W[1])))
      [] c = "w3_1" -> Returns(duration(W[3]) < 10 * duration(W[1]))
      [] c = "w3_2" -> Returns(ExceedsTimes(length(W[2]), 35, 100, length(W[1])))

CorrectionMessage(c) ==
    CASE c = "w2_1" -> "End of WaveB is higher than Start of WaveA."
      [] c = "w2_2" -> "End of WaveB is higher than Start of WaveA."
      [] c = "w2_3" -> "WaveB longer than WaveA."
      [] c = "w2_4" -> "WaveB longer (time wise) than 10 x WaveA."
      [] c = "w2_5" -> "WaveC shorter (value wise) than 0.60 x WaveA."
      [] c = "w2_6" -> "WaveB longer (value wise) than 2.61 x WaveA."
      [] c = "w2_7" -> "WaveB longer (value wise) than 0.618 x WaveA."
      [] c = "w3_1" -> "WaveB longer (value wise) than 2.61 x WaveA."
      [] c = "w3_2" -> "WaveB shorter (value wise) than 0.35 x WaveA."

\* wave retraces below the fib_ratio level of base, measured from its high
\* (fib_ratio in hundredths)
BelowFib(w, base, fib_ratio) ==
    IF 100 * w.low = 100 * base.high - (base.high - base.low) * fib_ratio
    THEN FloatLess(FromInt(w.low),
                   calculate_fibonacci_level(base.low, base.high,
                                             DoubleOf(fib_ratio, 100),
                                             "high_to_low").value)
    ELSE 100 * w.low < 100 * base.high - (base.high - base.low) * fib_ratio

Impulse3WaveLongestConditions ==
    <<"w2_1", "w2_2", "w3_1", "w3_2", "w4_2", "w5_1", "w5_2", "w5_3">>

Impulse3WaveLongestFunction(c, W, x_y_ratio) ==
    CASE c = "w2_1" -> Returns(BelowFib(W[2], W[1], 30))
      [] c = "w2_2" -> Returns(W[2].low > W[1].low)
      [] c = "w3_1" -> Returns(W[3].high > W[1].high)
      [] c = "w3_2" -> is_wave1_diagonal_longer_than_wave2(W[3], W[1], 162, x_y_ratio)
      [] c = "w4_2" -> Returns(BelowFib(W[4], W[3], 24) /\ W[4].low > W[1].high)
      [] c = "w5_1" -> Returns(W[3].high < W[5].high)
      [] c = "w5_2" ->
            AndThen(wave1_longer_than_wave2(W[3], W[1]),
                    wave1_longer_than_wave2(W[3], W[5]))
      [] c = "w5_3" -> Returns(diagonal_length_between(W[3], W[5]))

Impulse3WaveLongestMessage(c) ==
    CASE c = "w2_1" -> "wave2 retracement must exceed the 0.3 fibonacci level."
      [] c = "w2_2" -> "wave2 low must be above the low of wave1."
      [] c = "w3_1" -> "wave3 must be above wave1 high."
      [] c = "w3_2" -> "wave3 must be at least 1.62 of wave1 diagonal length."
      [] c = "w4_2" -> "at least fibonacci 0.24 of wave3 and above wave1 high."
      [] c = "w5_1" -> "wave5 must be above wave3 high."
      [] c = "w5_2" -> "wave3 must be longer than wave1, wave5."
      [] c = "w5_3" -> "wave5 must be between 0.24 ~ 1.0 of wave3 diagonal length."

Impulse1WaveLongestConditions ==
    <<"w2_1", "w2_2", "w3_1", "w3_2", "w4_1", "w4_2", "w5_1", "w5_2", "w5_3">>

Impulse1WaveLongestFunction(c, W, x_y_ratio) ==
    CASE c = "w2_1" -> Returns(BelowFib(W[2], W[1], 20))
      [] c = "w2_2" -> Returns(W[2].low > W[1].low)
      [] c = "w3_1" -> Returns(W[3].high > W[1].high)
      [] c = "w3_2" ->
            AndThen(is_wave1_diagonal_longer_than_wave2(W[3], W[1], 30, x_y_ratio),
                    is_wave1_diagonal_shorter_than_wave2(W[3], W[1], 90, x_y_ratio))
      [] c = "w4_1" -> Returns(BelowFib(W[4], W[3], 20) /\ W[4].low > W[1].high)
      [] c = "w4_2" -> is_wave1_diagonal_shorter_than_wave2(W[4], W[2], 0, x_y_ratio)
      [] c = "w5_1" -> Returns(W[3].high < W[5].high)
      [] c = "w5_2" ->
            AndThen(wave1_longer_than_wave2(W[1], W[3]),
                    wave1_longer_than_wave2(W[1], W[5]))
      [] c = "w5_3" ->
            AndThen(is_wave1_diagonal_longer_than_wave2(W[5], W[3], 10, x_y_ratio),
                    is_wave1_diagonal_shorter_than_wave2(W[5], W[3], 90, x_y_ratio))

Impulse1WaveLongestMessage(c) ==
    CASE c = "w2_1" -> "wave2 retracement must exceed the 0.2 fibonacci level."
      [] c = "w2_2" -> "wave2 low must be above wave1 low."
      [] c = "w3_1" -> "wave3 must be above wave1 high."
      [] c = "w3_2" -> "wave3 must be between 0.3 ~ 0.9 of wave1 diagonal length."
      [] c = "w4_1" -> "at least fibonacci 0.2 of wave3 and above wave1 high."
      [] c = "w4_2" -> "wave4 must be shorter than wave2 diagonal length."
      [] c = "w5_1" -> "wave5 must be above wave3 high."
      [] c = "w5_2" -> "wave1 must be longer than wave3, wave5."
      [] c = "w5_3" -> "wave5 must be between 0.1 ~ 0.9 of wave3 diagonal length."

Impulse5WaveLongestConditions ==
    <<"w2_1", "w2_2", "w3_1", "w3_2", "w4_1", "w5_1", "w5_2", "w5_3">>

Impulse5WaveLongestFunction(c, W, x_y_ratio) ==
    CASE c = "w2_1" -> Returns(BelowFib(W[2], W[1], 20))
      [] c = "w2_2" -> Returns(W[2].low > W[1].low)
      [] c = "w3_1" -> Returns(W[3].high > W[1].high)
      [] c = "w3_2" -> is_wave1_diagonal_longer_than_wave2(W[3], W[1], 110, x_y_ratio)
      [] c = "w4_1" -> Returns(BelowFib(W[4], W[3], 24) /\ W[4].low > W[1].high)
      [] c = "w5_1" -> Returns(W[3].high < W[5].high)
      [] c = "w5_2" -> is_wave1_diagonal_longer_than_wave2(W[5], W[3], 120, x_y_ratio)
      [] c = "w5_3" ->
            AndThen(is_wave1_diagonal_longer_than_wave2(W[5], W[3], 0, x_y_ratio),
                    is_wave1_diagonal_longer_than_wave2(W[5], W[1], 0, x_y_ratio))

Impulse5WaveLongestMessage(c) ==
    CASE c = "w2_1" -> "wave2 retracement must exceed the 0.2 fibonacci level."
      [] c = "w2_2" -> "wave2 low must be above wave1 low."
      [] c = "w3_1" -> "wave3 must be above wave1 high."
      [] c = "w3_2" -> "wave3 must be at least 1.1 of wave1 diagonal length."
      [] c = "w4_1" -> "at least fibonacci 0.24 of wave3 and above wave1 high."
      [] c = "w5_1" -> "wave5 must be above wave3 high."
      [] c = "w5_2" -> "wave5 must be at least 1.2 longer than wave3."
      [] c = "w5_3" -> "wave5 must be longer than wave3, wave1."

ExpandingDiagonalConditions ==
    <<"w2_1", "w2_2", "w3_1", "w3_2", "w4_1", "w4_2", "w5_1", "w5_2">>

\* the table without the overlap of wave 4 with wave 1
ExpandingDiagonalWithoutOverlap(c, W, x_y_ratio) ==
    CASE c = "w2_1" -> Returns(BelowFib(W[2], W[1], 20))
      [] c = "w2_2" -> Returns(W[2].low > W[1].low)
      [] c = "w3_1" -> Returns(W[3].high > W[1].high)
      [] c = "w3_2" -> is_wave1_diagonal_longer_than_wave2(W[3], W[1], 120, x_y_ratio)
      [] c = "w4_1" -> Returns(TRUE)
      [] c = "w4_2" -> Returns(W[4].low > W[2].low)
      [] c = "w5_1" -> Returns(W[3].high < W[5].high)
      [] c = "w5_2" -> is_wave1_diagonal_longer_than_wave2(W[5], W[3], 110, x_y_ratio)

ExpandingDiagonalFunction(c, W, x_y_ratio) ==
    CASE c = "w2_1" -> Returns(BelowFib(W[2], W[1], 20))
      [] c = "w2_2" -> Returns(W[2].low > W[1].low)
      [] c = "w3_1" -> Returns(W[3].high > W[1].high)
      [] c = "w3_2" -> is_wave1_diagonal_longer_than_wave2(W[3], W[1], 120, x_y_ratio)
      [] c = "w4_1" -> Returns(W[4].low < W[1].high)
      [] c = "w4_2" -> Returns(W[4].low > W[2].low)
      [] c = "w5_1" -> Returns(W[3].high < W[5].high)
      [] c = "w5_2" -> is_wave1_diagonal_longer_than_wave2(W[5], W[3], 110, x_y_ratio)

ExpandingDiagonalMessage(c) ==
    CASE c = "w2_1" -> "wave2 retracement must exceed the 0.2 fibonacci level."
      [] c = "w2_2" -> "wave2 low must be above wave1 low."
      [] c = "w3_1" -> "wave3 must be above wave1 high."
      [] c = "w3_2" -> "wave3 must be at least 1.2 of wave1 diagonal length."
      [] c = "w4_1" -> "wave4 low must be below wave1 high."
      [] c = "w4_2" -> "wave4 low must be above wave2 low."
      [] c = "w5_1" -> "wave5 must be above wave3 high."
      [] c = "w5_2" -> "wave5 must be at least 1.1 longer than wave3."

ContractingDiagonalConditions ==
    <<"w2_1", "w2_2", "w3_1", "w3_2", "w4_1", "w4_2", "w4_3", "w5_1", "w5_2">>

ContractingDiagonalFunction(c, W, x_y_ratio) ==
    CASE c = "w2_1" -> Returns(BelowFib(W[2], W[1], 20))
      [] c = "w2_2" -> Returns(W[2].low > W[1].low)
      [] c = "w3_1" -> Returns(W[3].high > W[1].high)
      [] c = "w3_2" -> is_wave1_diagonal_shorter_than_wave2(W[3], W[1], 0, x_y_ratio)
      [] c = "w4_1" -> Returns(W[4].low < W[1].high)
      [] c = "w4_2" -> Returns(W[4].low > W[2].low)
      [] c = "w4_3" -> is_wave1_diagonal_shorter_than_wave2(W[4], W[2], 0, x_y_ratio)
      [] c = "w5_1" -> Returns(W[3].high < W[5].high)
      [] c = "w5_2" -> is_wave1_diagonal_shorter_than_wave2(W[5], W[3], 90, x_y_ratio)

ContractingDiagonalMessage(c) ==
    CASE c = "w2_1" -> "wave2 retracement must exceed the 0.2 fibonacci level."
      [] c = "w2_2" -> "wave2 low must be above wave1 low."
      [] c = "w3_1" -> "wave3 must be above wave1 high."
      [] c = "w3_2" -> "wave3 must be shorter than wave1 diagonal length."
      [] c = "w4_1" -> "wave4 low must be below wave1 high."
      [] c = "w4_2" -> "wave4 low must be above wave2 low."
      [] c = "w4_3" -> "wave4 must be shorter than wave2."
      [] c = "w5_1" -> "wave5 must be above wave3 high."
      [] c = "w5_2" -> "wave5 must be at most 0.99 of the length of wave3."

\* LeadingDiagonal.slope: delta_y / delta_x as a fraction, 0 when delta_x = 0
slope(x1, x2, y1, y2) ==
    IF x2 - x1 = 0 THEN [num |-> 0, den |-> 1]
    ELSE [num |-> y2 - y1, den |-> x2 - x1]

\* a > b for fractions
SlopeGreater(a, b) ==
    IF (a.den > 0) = (b.den > 0) THEN a.num * b.den > b.num * a.den
    ELSE a.num * b.den < b.num * a.den

\* the 2-4 trendline rises faster than the 1-3 trendline, which rises
TrendlineCheck(W) ==
    /\ SlopeGreater(slope(W[2].idx_end, W[4].idx_end, W[2].low, W[4].low),
                    slope(W[1].idx_end, W[3].idx_end, W[1].high, W[3].high))
    /\ SlopeGreater(slope(W[1].idx_end, W[3].idx_end, W[1].high, W[3].high),
                    [num |-> 0, den |-> 1])

LeadingDiagonalConditions ==
    <<"w2_0", "w2_1", "w2_2", "w2_3", "w3_1", "w3_2", "w3_3", "w3_4", "w3_5",
      "w4_1", "w4_2", "w5_1", "w5_2", "w5_3", "w5_4">>

\* the Impulse conditions with the trendline check in front
LeadingDiagonalAsImpulse(c, W) ==
    CASE c = "w2_0" -> Returns(TrendlineCheck(W))
      [] c = "w2_1" -> Returns(W[2].low > W[1].low)
      [] c = "w2_2" -> Returns(ReachesTimes(length(W[2]), 2, 10, length(W[1])))
      [] c = "w2_3" -> Returns(9 * duration(W[2]) > duration(W[1]))
      [] c = "w3_1" -> Returns(~(length(W[3]) < length(W[5]) /\ length(W[3]) < length(W[1])))
      [] c = "w3_2" -> Returns(W[3].high > W[1].high)
      [] c = "w3_3" -> Returns(3 * length(W[3]) >= length(W[1]))
      [] c = "w3_4" -> Returns(length(W[3]) > length(W[2]))
      [] c = "w3_5" -> Returns(7 * duration(W[3]) > duration(W[1]))
      [] c = "w4_1" -> Returns(W[4].low > W[1].high)
      [] c = "w4_2" -> Returns(3 * length(W[4]) > length(W[2]))
      [] c = "w5_1" -> Returns(W[3].high < W[5].high)
      [] c = "w5_2" -> Returns(length(W[5]) < 2 * length(W[1]))
      [] c = "w5_3" -> Returns(TRUE)
      [] c = "w5_4" -> Returns(TRUE)

LeadingDiagonalFunction(c, W) ==
    CASE c = "w2_0" -> Returns(TrendlineCheck(W))
      [] c = "w2_1" -> Returns(W[2].low > W[1].low)
      [] c = "w2_2" -> Returns(ReachesTimes(length(W[2]), 2, 10, length(W[1])))
      [] c = "w2_3" -> Returns(9 * duration(W[2]) > duration(W[1]))
      [] c = "w3_1" -> Returns(~(length(W[3]) < length(W[5]) /\ length(W[3]) < length(W[1])))
      [] c = "w3_2" -> Returns(W[3].high > W[1].high)
      [] c = "w3_3" -> Returns(3 * length(W[3]) >= length(W[1]))
      [] c = "w3_4" -> Returns(length(W[3]) > length(W[2]))
      [] c = "w3_5" -> Returns(7 * duration(W[3]) > duration(W[1]))
      [] c = "w4_1" -> Returns(W[4].low < W[1].high)
      [] c = "w4_2" -> Returns(3 * length(W[4]) > length(W[2]))
      [] c = "w5_1" -> Returns(W[3].high < W[5].high)
      [] c = "w5_2" -> Returns(length(W[5]) < 2 * length(W[1]))
      [] c = "w5_3" -> Returns(ExceedsTimes(length(W[5]), 70, 100, length(W[1])))
      [] c = "w5_4" -> Returns(length(W[5]) < length(W[3]))

LeadingDiagonalMessage(c) ==
    CASE c = "w2_0" -> "Trend lines of Wave1-3 and Wave2-4 not forming Leading Diagonal."
      [] c = "w2_1" -> "End of Wave2 is lower than Start of Wave1."
      [] c = "w2_2" -> "Wave2 is shorten than 20% of Wave1."
      [] c = "w2_3" -> "Wave2 is longer than 9x Wave1"
      [] c = "w3_1" -> "Wave3 is the shortest Wave."
      [] c = "w3_2" -> "End of Wave3 is lower than End of Wave1"
      [] c = "w3_3" -> "Wave3 is shorter than 1/3 of Wave1"
      [] c = "w3_4" -> "Wave3 shorter than Wave2"
      [] c = "w3_5" -> "Wave3 more than 7 times longer than Wave1."
      [] c = "w4_1" -> "End of Wave4 is not lower than End of Wave1"
      [] c = "w4_2" -> "Length of Wave4 is shorter than 1/3 of End of Wave1"
      [] c = "w5_1" -> "End of Wave5 is lower than End of Wave3"
      [] c = "w5_2" -> "Wave5 is longer (value wise) than 2.0 x Wave1"
      [] c = "w5_3" -> "Wave5 is shorter (value wise) than 0.70 x Wave1"
      [] c = "w5_4" -> "Wave5 is not shorter (value wise) than Wave3"

PracticalRules ==
    {"Impulse1WaveLongest", "Impulse3WaveLongest", "Impulse5WaveLongest",
     "ExpandingDiagonal", "ContractingDiagonal"}

RuleClasses == PracticalRules \cup {"Impulse", "Correction"}

\* WaveRule.__init__: the conditions and the x_y_ratio of a new rule
WaveRule(cls, x_y_ratio) == [cls |-> cls, x_y_ratio |-> x_y_ratio]

\* rule.conditions: the ids in table order
conditions(r) ==
    CASE r.cls = "Impulse" -> ImpulseConditions
      [] r.cls = "Correction" -> CorrectionConditions
      [] r.cls = "Impulse3WaveLongest" -> Impulse3WaveLongestConditions
      [] r.cls = "Impulse1WaveLongest" -> Impulse1WaveLongestConditions
      [] r.cls = "Impulse5WaveLongest" -> Impulse5WaveLongestConditions
      [] r.cls = "ExpandingDiagonal" -> ExpandingDiagonalConditions
      [] r.cls = "ContractingDiagonal" -> ContractingDiagonalConditions
      [] r.cls = "LeadingDiagonal" -> LeadingDiagonalConditions

\* conditions[c]["function"](*waves)
function(r, c, W) ==
    CASE r.cls = "Impulse" -> ImpulseFunction(c, W)
      [] r.cls = "Correction" -> CorrectionFunction(c, W)
      [] r.cls = "Impulse3WaveLongest" -> Impulse3WaveLongestFunction(c, W, r.x_y_ratio)
      [] r.cls = "Impulse1WaveLongest" -> Impulse1WaveLongestFunction(c, W, r.x_y_ratio)
      [] r.cls = "Impulse5WaveLongest" -> Impulse5WaveLongestFunction(c, W, r.x_y_ratio)
      [] r.cls = "ExpandingDiagonal" -> ExpandingDiagonalFunction(c, W, r.x_y_ratio)
      [] r.cls = "ContractingDiagonal" -> ContractingDiagonalFunction(c, W, r.x_y_ratio)
      [] r.cls = "LeadingDiagonal" -> LeadingDiagonalFunction(c, W)

\* conditions[c]["message"]
message(r, c) ==
    CASE r.cls = "Impulse" -> ImpulseMessage(c)
      [] r.cls = "Correction" -> CorrectionMessage(c)
      [] r.cls = "Impulse3WaveLongest" -> Impulse3WaveLongestMessage(c)
      [] r.cls = "Impulse1WaveLongest" -> Impulse1WaveLongestMessage(c)
      [] r.cls = "Impulse5WaveLongest" -> Impulse5WaveLongestMessage(c)
      [] r.cls = "ExpandingDiagonal" -> ExpandingDiagonalMessage(c)
      [] r.cls = "ContractingDiagonal" -> ContractingDiagonalMessage(c)
      [] r.cls = "LeadingDiagonal" -> LeadingDiagonalMessage(c)

(***************************************************************************)
(* WavePattern.check_rule.  The result carries the verdict, the violation  *)
(* the pattern holds afterwards and the conditions that were evaluated.    *)
(***************************************************************************)
RECURSIVE CheckAllFrom(_, _, _, _)
CheckAllFrom(p, r, i, acc) ==
    IF i > Len(conditions(r)) THEN acc
    ELSE LET c == conditions(r)[i]
             seen == Append(acc.evaluated, c)
         IN  IF Holds(function(r, c, p.waves))
             THEN CheckAllFrom(p, r, i + 1, [acc EXCEPT !.evaluated = seen])
             ELSE CheckAllFrom(p, r, i + 1,
                     [ok |-> FALSE, err |-> NoError, violation |-> message(r, c),
                      evaluated |-> seen])

\* a check that evaluates the whole table and keeps the last failure
CheckAllConditions(p, r) ==
    CheckAllFrom(p, r, 1, [ok |-> TRUE, err |-> NoError, violation |-> p.violation,
                           evaluated |-> <<>>])

RECURSIVE CheckFrom(_, _, _, _)
\* condition i evaluated to the outcome o: an exception leaves the check,
\* False sets the violation and returns False, True goes to the next one
Evaluated(p, r, i, evaluated, o) ==
    IF o.err # NoError
    THEN [ok |-> FALSE, err |-> o.err, violation |-> p.violation,
          evaluated |-> Append(evaluated, conditions(r)[i])]
    ELSE IF ~o.value
    THEN [ok |-> FALSE, err |-> NoError, violation |-> message(r, conditions(r)[i]),
          evaluated |-> Append(evaluated, conditions(r)[i])]
    ELSE CheckFrom(p, r, i + 1, Append(evaluated, conditions(r)[i]))

CheckFrom(p, r, i, evaluated) ==
    IF i > Len(conditions(r))
    THEN [ok |-> TRUE, err |-> NoError, violation |-> p.violation,
          evaluated |-> evaluated]
    ELSE Evaluated(p, r, i, evaluated, function(r, conditions(r)[i], p.waves))

check_rule(p, r) == CheckFrom(p, r, 1, <<>>)

(***************************************************************************)
(* Rule checking over patterns.  A pattern is a zigzag of legs from        *)
(* StartPrice: each leg moves 1 .. MaxLeg in price and lasts at least one   *)
(* bar, the whole pattern spanning at most MaxSpan bars.                   *)
(***************************************************************************)
MaxLeg == 4
MaxSpan == 6
StartPrice == 10

\* the x_y_ratio values of a run, in tenths: the ends of the input range
XYRatios == {12, 25}

LegWave(dir, idx_start, idx_end, from, to) ==
    [dir |-> dir, skip_n |-> 0, idx_start |-> idx_start, idx_end |-> idx_end,
     low |-> IF dir = "up" THEN from ELSE to,
     high |-> IF dir = "up" THEN to ELSE from,
     low_idx |-> IF dir = "up" THEN idx_start ELSE idx_end,
     high_idx |-> IF dir = "up" THEN idx_end ELSE idx_start]

RECURSIVE Zigzag(_, _, _, _, _)
Zigzag(dir, idx, price, amps, gaps) ==
    IF amps = <<>> THEN <<>>
    ELSE LET to == IF dir = "up" THEN price + Head(amps) ELSE price - Head(amps)
             e == idx + Head(gaps)
         IN  <<LegWave(dir, idx, e, price, to)>>
               \o Zigzag(IF dir = "up" THEN "down" ELSE "up", e, to,
                         Tail(amps), Tail(gaps))

\* a pattern that takes its idx_end from its first wave
WavePatternOfFirstWave(waves, oid) ==
    [waves |-> waves, idx_start |-> waves[1].idx_start,
     idx_end |-> waves[1].idx_end, violation |-> "", oid |-> oid]

\* WavePattern.__init__: the waves and the pattern's own idx_start, idx_end
WavePattern(waves, oid) ==
    [waves |-> waves, idx_start |-> waves[1].idx_start,
     idx_end |-> waves[Len(waves)].idx_end, violation |-> "", oid |-> oid]

Legs(n) == [1 .. n -> 1 .. MaxLeg]
RECURSIVE SeqSum(_)
SeqSum(sq) == IF sq = <<>> THEN 0 ELSE Head(sq) + SeqSum(Tail(sq))

Gaps(n) == {g \in [1 .. n -> 1 .. (MaxSpan - n + 1)] : SeqSum(g) <= MaxSpan}

SeriesIdle == lows = <<>> /\ highs = <<>> /\ ZigzagIdle /\ wave = NoWave

\* chains over bars with a range.  A bar that is a local high and a local
\* low at once ends a wave and holds the next wave whole, a wave of no
\* duration; the wave after it leaves the bar only by going beyond it, and
\* stays on the bar only as the same range again.
ZeroRetraceGaps == {<<2, 0, 2, 0, 0>>, <<2, 0, 2, 0, 2>>}

ZeroRetrace(a, g) ==
    /\ a[3] > a[2]
    /\ IF g[5] = 0 THEN a[5] = a[4] ELSE a[5] > a[4]

\* the skips that build the chain: a wave that leaves the bar it starts on
\* passes the bar's own extremum first
ZeroRetraceSkips(g) == <<0, 0, 1, 0, IF g[5] = 0 THEN 0 ELSE 1>>

WithSkips(waves, skips) ==
    [i \in DOMAIN waves |-> [waves[i] EXCEPT !.skip_n = skips[i]]]

RuleInit ==
    /\ SeriesIdle
    /\ \/ \E a \in Legs(5), g \in Gaps(5) :
             pattern = WavePattern(Zigzag("up", 0, StartPrice, a, g), 1)
       \/ \E a \in Legs(5), g \in ZeroRetraceGaps :
             /\ ZeroRetrace(a, g)
             /\ pattern = WavePattern(WithSkips(Zigzag("up", 0, StartPrice, a, g),
                                                ZeroRetraceSkips(g)), 1)
       \/ \E a \in Legs(3), g \in Gaps(3) :
             pattern = WavePattern(Zigzag("down", 0, StartPrice, a, g), 1)
    /\ rule = NoRule
    /\ checked = NotChecked
    /\ GenIdle
    /\ DiagonalsIdle
    /\ LevelIdle
    /\ SearchIdle

\* the rules a pattern of this shape is checked against
RulesFor(p) ==
    IF Len(p.waves) = 5 THEN RuleClasses \ {"Correction"} ELSE {"Correction"}

\* rule constructor, the x_y_ratio left at its default or given
NewRule ==
    /\ rule = NoRule
    /\ \E cls \in RulesFor(pattern), x \in {DefaultXY} \cup XYRatios :
          rule' = WaveRule(cls, x)
    /\ UNCHANGED <<seriesVars, diagonals, level, wave, pattern, checked, gen, searchVars>>

\* x_y_ratio setter
SetXYRatio ==
    /\ rule # NoRule
    /\ ~checked.done
    /\ \E x \in XYRatios : rule' = [rule EXCEPT !.x_y_ratio = x]
    /\ UNCHANGED <<seriesVars, diagonals, level, wave, pattern, checked, gen, searchVars>>

\* a check whose diagonal metric divides the waves' own spans in place
\* (width /= max_x written back to the waves)
AfterCheckNormalised(p, res) ==
    [p EXCEPT !.violation = res.violation,
              !.waves = [i \in DOMAIN p.waves |->
                           [p.waves[i] EXCEPT !.idx_end = p.waves[i].idx_start + 1]]]

\* the pattern object after check_rule returned res: the waves are read,
\* the violation is the only field assigned
AfterCheck(p, res) == [p EXCEPT !.violation = res.violation]

CheckRule ==
    /\ rule # NoRule
    /\ ~checked.done
    /\ LET res == check_rule(pattern, rule)
       IN  /\ pattern' = AfterCheck(pattern, res)
           /\ checked' = [done |-> TRUE, ok |-> res.ok, evaluated |-> res.evaluated]
           /\ error' = res.err
    /\ UNCHANGED <<seriesVars, diagonals, level, wave, rule, gen, rules_to_check, phase,
                   cursor, up_cursor, call, wavepatterns_up, wavepatterns_down,
                   reported>>

RuleNext == NewRule \/ SetXYRatio \/ CheckRule

SpecRule == RuleInit /\ [][RuleNext]_vars

\* indices of the conditions of the rule that are false on the pattern
FalseConditions ==
    {i \in DOMAIN conditions(rule) :
        ~Holds(function(rule, conditions(rule)[i], pattern.waves))}

\* the i-th condition of the rule holds on the pattern
ConditionHolds(i) == Holds(function(rule, conditions(rule)[i], pattern.waves))

\* C4: a check that returns evaluates the conditions in table order up to
\* and including the first false one; it then returns false with the
\* pattern's violation equal to that condition's message; it returns true
\* iff none is false, and then every condition was evaluated and no
\* violation was set.
C4_FirstFailureStops ==
    (checked.done /\ error = NoError) =>
       LET n == Len(checked.evaluated) IN
       /\ n <= Len(conditions(rule))
       /\ checked.evaluated = SubSeq(conditions(rule), 1, n)
       /\ \A i \in 1 .. n - 1 : ConditionHolds(i)
       /\ IF checked.ok
          THEN /\ n = Len(conditions(rule))
               /\ n > 0 => ConditionHolds(n)
               /\ pattern.violation = ""
          ELSE /\ n > 0
               /\ ~ConditionHolds(n)
               /\ pattern.violation = message(rule, conditions(rule)[n])

\* a failed check with a later condition that is false as well
C4_Witness ==
    /\ checked.done
    /\ error = NoError
    /\ ~checked.ok
    /\ Cardinality(FalseConditions) >= 2
    /\ Len(checked.evaluated) < Len(conditions(rule))
    /\ message(rule, conditions(rule)[Max(FalseConditions)]) # pattern.violation

\* the condition as the normalized metric with the rule's own x_y_ratio
\* would have it: the three conditions of the practical tables that compare
\* lengths otherwise, and every other condition as it is
function_xy(r, c, W) ==
    IF r.cls = "Impulse3WaveLongest" /\ c = "w5_2"
    THEN AndThen(is_wave1_diagonal_longer_than_wave2(W[3], W[1], 0, r.x_y_ratio),
                 is_wave1_diagonal_longer_than_wave2(W[3], W[5], 0, r.x_y_ratio))
    ELSE IF r.cls = "Impulse3WaveLongest" /\ c = "w5_3"
    THEN AndThen(is_wave1_diagonal_longer_than_wave2(W[5], W[3], 24, r.x_y_ratio),
                 is_wave1_diagonal_shorter_than_wave2(W[5], W[3], 0, r.x_y_ratio))
    ELSE IF r.cls = "Impulse1WaveLongest" /\ c = "w5_2"
    THEN AndThen(is_wave1_diagonal_longer_than_wave2(W[1], W[3], 0, r.x_y_ratio),
                 is_wave1_diagonal_longer_than_wave2(W[1], W[5], 0, r.x_y_ratio))
    ELSE function(r, c, W)

\* C5: in a check against one of the five practical rules, every condition
\* that was evaluated has the value the pairwise-normalized diagonal metric
\* with the rule's current x_y_ratio gives it.
C5_ComparisonsUseXYRatio ==
    (checked.done /\ rule.cls \in PracticalRules) =>
       \A i \in DOMAIN checked.evaluated :
          function(rule, checked.evaluated[i], pattern.waves)
             = function_xy(rule, checked.evaluated[i], pattern.waves)

(***************************************************************************)
(* The generic Impulse rule and LeadingDiagonal checked on the same        *)
(* five-wave patterns.                                                     *)
(***************************************************************************)
DiagonalInit ==
    /\ SeriesIdle
    /\ \E a \in Legs(5), g \in Gaps(5) :
          pattern = WavePattern(Zigzag("up", 0, StartPrice, a, g), 1)
    /\ rule = NoRule
    /\ checked = NotChecked
    /\ GenIdle
    /\ DiagonalsIdle
    /\ LevelIdle
    /\ SearchIdle

NewImpulse ==
    /\ rule = NoRule
    /\ rule' = WaveRule("Impulse", DefaultXY)
    /\ UNCHANGED <<seriesVars, diagonals, level, wave, pattern, checked, gen, searchVars>>

NewLeadingDiagonal ==
    /\ rule = NoRule
    /\ rule' = WaveRule("LeadingDiagonal", DefaultXY)
    /\ UNCHANGED <<seriesVars, diagonals, level, wave, pattern, checked, gen, searchVars>>

DiagonalNext == NewImpulse \/ NewLeadingDiagonal \/ CheckRule

SpecDiagonal == DiagonalInit /\ [][DiagonalNext]_vars

\* every condition of the generic Impulse rule holds on the waves
ImpulseHolds(W) ==
    \A i \in DOMAIN ImpulseConditions :
       Holds(ImpulseFunction(ImpulseConditions[i], W))

\* the Impulse conditions other than w4_1
ImpulseHoldsBut41(W) ==
    \A i \in DOMAIN ImpulseConditions :
       ImpulseConditions[i] # "w4_1" =>
          Holds(ImpulseFunction(ImpulseConditions[i], W))

\* slope of the 2-4 low trendline above slope of the 1-3 high trendline,
\* both positive, in cross-multiplied form (the index differences are
\* positive on a chain)
Converging(W) ==
    /\ (W[4].low - W[2].low) * (W[3].idx_end - W[1].idx_end)
          > (W[3].high - W[1].high) * (W[4].idx_end - W[2].idx_end)
    /\ W[3].high - W[1].high > 0
    /\ W[4].low - W[2].low > 0

\* C15 as stated: LeadingDiagonal accepts exactly when every Impulse
\* condition holds and the trendline check holds.
C15_LeadingDiagonalIsImpulsePlusTrendline ==
    (checked.done /\ rule.cls = "LeadingDiagonal") =>
       (checked.ok <=> (ImpulseHolds(pattern.waves) /\ Converging(pattern.waves)))

\* C15 amended: LeadingDiagonal accepts exactly when the trendline check
\* holds, every Impulse condition other than w4_1 holds, wave 4 ends below
\* the end of wave 1, and wave 5 is longer than 0.70 of wave 1 and shorter
\* than wave 3.
C15_LeadingDiagonalOverlaps ==
    (checked.done /\ rule.cls = "LeadingDiagonal") =>
       (checked.ok <=>
          /\ Converging(pattern.waves)
          /\ ImpulseHoldsBut41(pattern.waves)
          /\ pattern.waves[4].low < pattern.waves[1].high
          /\ 10 * length(pattern.waves[5]) > 7 * length(pattern.waves[1])
          /\ length(pattern.waves[5]) < length(pattern.waves[3]))

\* a pattern LeadingDiagonal accepts: its wave 4 ends below the end of
\* wave 1, so the generic Impulse rule does not hold on it
C15_Witness ==
    /\ checked.done
    /\ rule.cls = "LeadingDiagonal"
    /\ checked.ok
    /\ Converging(pattern.waves)
    /\ ~ImpulseHolds(pattern.waves)

(***************************************************************************)
(* Wave option generator (models/WaveOptions.py as used by main.py and     *)
(* wrapper.py): N slots, each between up_from and up_to inclusive.         *)
(***************************************************************************)
\* every tuple with an exclusive upper bound
RECURSIVE ProductExclusive(_, _, _)
ProductExclusive(n, from, to) ==
    IF n = 0 THEN << <<>> >>
    ELSE LET rest == ProductExclusive(n - 1, from, to)
             cnt == IF to > from THEN to - from ELSE 0
         IN  [k \in 1 .. (cnt * Len(rest)) |->
                <<from + ((k - 1) \div Len(rest))>> \o rest[((k - 1) % Len(rest)) + 1]]

\* every tuple of n values in from .. to, in lexicographic order
RECURSIVE Product(_, _, _)
Product(n, from, to) ==
    IF n = 0 THEN << <<>> >>
    ELSE LET rest == Product(n - 1, from, to)
             cnt == IF to >= from THEN to - from + 1 ELSE 0
         IN  [k \in 1 .. (cnt * Len(rest)) |->
                <<from + ((k - 1) \div Len(rest))>> \o rest[((k - 1) % Len(rest)) + 1]]

RECURSIVE BySum(_, _, _)
BySum(opts, s, smax) ==
    IF s > smax THEN <<>>
    ELSE SelectSeq(opts, LAMBDA t : SeqSum(t) = s) \o BySum(opts, s + 1, smax)

\* the options in the order populate() generated them
OptionsAsGenerated(g) == g.options

\* ascending by sum, ties in lexicographic order
options_sorted(g) == BySum(g.options, 0, g.n * MaxSkip)

number(g) == Len(g.options)

Slots == {3, 5}

\* constructor: N slots, up_to given, up_from 0, options generated for 0 .. up_to
NewGenerator ==
    /\ gen = NoGen
    /\ \E n \in Slots, to \in 0 .. MaxSkip :
          gen' = [n |-> n, up_from |-> 0, up_to |-> to,
                  options |-> Product(n, 0, to), fresh |-> TRUE]
    /\ UNCHANGED <<seriesVars, diagonals, level, wave, pattern, rule, checked, searchVars>>

SetUpFrom ==
    /\ gen # NoGen
    /\ \E from \in 0 .. MaxSkip :
          gen' = [gen EXCEPT !.up_from = from, !.fresh = FALSE]
    /\ UNCHANGED <<seriesVars, diagonals, level, wave, pattern, rule, checked, searchVars>>

SetUpTo ==
    /\ gen # NoGen
    /\ \E to \in 0 .. MaxSkip :
          gen' = [gen EXCEPT !.up_to = to, !.fresh = FALSE]
    /\ UNCHANGED <<seriesVars, diagonals, level, wave, pattern, rule, checked, searchVars>>

\* populate() that adds to what was generated before
PopulateKeepsEarlier ==
    /\ gen # NoGen
    /\ gen' = [gen EXCEPT !.options = gen.options \o Product(gen.n, gen.up_from, gen.up_to),
                          !.fresh = TRUE]
    /\ UNCHANGED <<seriesVars, diagonals, level, wave, pattern, rule, checked, searchVars>>

\* populate(): regenerate the options for the current bounds
Populate ==
    /\ gen # NoGen
    /\ gen' = [gen EXCEPT !.options = Product(gen.n, gen.up_from, gen.up_to),
                          !.fresh = TRUE]
    /\ UNCHANGED <<seriesVars, diagonals, level, wave, pattern, rule, checked, searchVars>>

GenInit == SeriesIdle /\ DiagonalsIdle /\ LevelIdle /\ RuleIdle /\ GenIdle /\ SearchIdle

GenNext == NewGenerator \/ SetUpFrom \/ SetUpTo \/ Populate

SpecGen == GenInit /\ [][GenNext]_vars

RECURSIVE Pow(_, _)
Pow(b, e) == IF e = 0 THEN 1 ELSE b * Pow(b, e - 1)

\* C10: after populate with up_from <= up_to the options are exactly the
\* tuples of N integers in up_from .. up_to, each once: there are
\* (up_to - up_from + 1)^N of them and number reports that count; three
\* slots over 0 .. 1 give 8 options.
C10_EveryTupleOnce ==
    (gen.fresh /\ gen.up_from <= gen.up_to) =>
       LET all == [1 .. gen.n -> gen.up_from .. gen.up_to]
       IN  /\ {gen.options[i] : i \in DOMAIN gen.options} = all
           /\ \A i, j \in DOMAIN gen.options :
                 gen.options[i] = gen.options[j] => i = j
           /\ number(gen) = Pow(gen.up_to - gen.up_from + 1, gen.n)
           /\ Len(options_sorted(gen)) = number(gen)
           /\ (gen.n = 3 /\ gen.up_from = 0 /\ gen.up_to = 1) => number(gen) = 8

\* three slots over 0 .. 1 populated: 8 options from (0,0,0) to (1,1,1)
C10_Witness ==
    /\ gen.fresh
    /\ gen.n = 3
    /\ gen.up_from = 0
    /\ gen.up_to = 1
    /\ number(gen) = 8
    /\ options_sorted(gen)[1] = <<0, 0, 0>>
    /\ options_sorted(gen)[8] = <<1, 1, 1>>

LexLess(a, b) ==
    \E k \in 1 .. Len(a) :
       /\ a[k] < b[k]
       /\ \A m \in 1 .. (k - 1) : a[m] = b[m]

\* a precedes b: smaller sum, or equal sum and lexicographically smaller
Precedes(a, b) ==
    \/ SeqSum(a) < SeqSum(b)
    \/ SeqSum(a) = SeqSum(b) /\ LexLess(a, b)

\* C11: options_sorted is ascending by the sum of the tuple's entries and
\* tuples of equal sum are in lexicographic order; so the first option is
\* the all-from tuple and the last is the all-to tuple.
C11_SortedBySumThenLex ==
    (gen.fresh /\ gen.up_from <= gen.up_to) =>
       \E s \in {options_sorted(gen)} :
          /\ \A i \in 1 .. (Len(s) - 1) :
                /\ SeqSum(s[i]) <= SeqSum(s[i + 1])
                /\ SeqSum(s[i]) = SeqSum(s[i + 1]) => LexLess(s[i], s[i + 1])
          /\ s[1] = [k \in 1 .. gen.n |-> gen.up_from]
          /\ s[Len(s)] = [k \in 1 .. gen.n |-> gen.up_to]

\* three slots over 0 .. 2: the generation order puts (0,0,2) before
\* (0,1,0); the sorted order puts (0,1,0), of sum 1, before (0,0,2) and
\* keeps (0,0,2) before (0,1,1) among the tuples of sum 2
C11_Witness ==
    /\ gen.fresh
    /\ gen.n = 3
    /\ gen.up_from = 0
    /\ gen.up_to = 2
    /\ gen.options[3] = <<0, 0, 2>>
    /\ gen.options[4] = <<0, 1, 0>>
    /\ \E s \in {options_sorted(gen)} :
          \E i, j, k \in 1 .. Len(s) :
             /\ i < j
             /\ j < k
             /\ s[i] = <<0, 1, 0>>
             /\ s[j] = <<0, 0, 2>>
             /\ s[k] = <<0, 1, 1>>

\* C12: after the bounds of a generator are changed and populate() is
\* called, options_sorted holds exactly the tuples over up_from .. up_to
\* in canonical order, each once, and number is (up_to - up_from + 1)^N;
\* nothing generated under earlier bounds remains, however often the
\* generator is re-bounded and populated.
C12_RepopulateReplaces ==
    (gen.fresh /\ gen.up_from <= gen.up_to) =>
       \E s \in {options_sorted(gen)} :
          /\ Len(s) = Pow(gen.up_to - gen.up_from + 1, gen.n)
          /\ number(gen) = Len(s)
          /\ \A t \in [1 .. gen.n -> gen.up_from .. gen.up_to] :
                \E i \in 1 .. Len(s) : s[i] = t
          /\ \A i \in 1 .. Len(s) :
                \A k \in 1 .. gen.n :
                   s[i][k] >= gen.up_from /\ s[i][k] <= gen.up_to
          /\ \A i \in 1 .. (Len(s) - 1) : Precedes(s[i], s[i + 1])

\* a five-slot generator, constructed with options over 0 .. up_to, then
\* re-bounded to start at 1 and populated again: 32 options over 1 .. 2
C12_Witness ==
    /\ gen.fresh
    /\ gen.n = 5
    /\ gen.up_from = 1
    /\ gen.up_to = 2
    /\ number(gen) = 32
    /\ options_sorted(gen)[1] = <<1, 1, 1, 1, 1>>
    /\ options_sorted(gen)[32] = <<2, 2, 2, 2, 2>>

(***************************************************************************)
(* detect_zigzag (main.py and wrapper.py, the same text).  The threshold   *)
(* is counted in hundredths, so that high / low - 1 >= threshold is        *)
(* 100 * (high - low) >= threshold * low on positive prices.  For the      *)
(* thresholds 0.05, 0.25 and 0.5 the floating-point comparison decides it  *)
(* the same way: the two sides are equal only for high / low = 1.05, 1.25  *)
(* or 1.5, where the float quotient less 1 is not below the float of the   *)
(* threshold.                                                              *)
(***************************************************************************)
Thresholds == {25, 50}

\* high / low - 1 >= threshold
MoveReaches(high, low, th) == 100 * (high - low) >= th * low

\* zigzag_points.pop() when the list is not empty
PopLast(pts) ==
    IF pts = <<>> THEN pts ELSE SubSeq(pts, 1, Len(pts) - 1)

\* an iteration that appends a continuation pivot without removing the
\* pivot it continues
ZigzagStepNoPop(st, i, ls, hs, th) ==
    IF st.up_trend
    THEN IF ls[i] <= ls[st.last_pivot]
         THEN [points |-> Append(st.points, <<i, ls[i]>>),
               kinds |-> Append(st.kinds, "low"),
               last_pivot |-> i, up_trend |-> TRUE]
         ELSE IF MoveReaches(hs[i], ls[st.last_pivot], th)
         THEN [points |-> Append(st.points, <<i, hs[i]>>),
               kinds |-> Append(st.kinds, "high"),
               last_pivot |-> i, up_trend |-> FALSE]
         ELSE st
    ELSE IF hs[i] >= hs[st.last_pivot]
         THEN [points |-> Append(st.points, <<i, hs[i]>>),
               kinds |-> Append(st.kinds, "high"),
               last_pivot |-> i, up_trend |-> FALSE]
         ELSE IF MoveReaches(hs[st.last_pivot], ls[i], th)
         THEN [points |-> Append(st.points, <<i, ls[i]>>),
               kinds |-> Append(st.kinds, "low"),
               last_pivot |-> i, up_trend |-> TRUE]
         ELSE st

\* the body of the loop for bar i; kinds records the branch that appended
\* each point (the source's points are (index, price) pairs)
ZigzagStep(st, i, ls, hs, th) ==
    IF st.up_trend
    THEN IF ls[i] <= ls[st.last_pivot]
         THEN [points |-> Append(PopLast(st.points), <<i, ls[i]>>),
               kinds |-> Append(PopLast(st.kinds), "low"),
               last_pivot |-> i, up_trend |-> TRUE]
         ELSE IF MoveReaches(hs[i], ls[st.last_pivot], th)
         THEN [points |-> Append(st.points, <<i, hs[i]>>),
               kinds |-> Append(st.kinds, "high"),
               last_pivot |-> i, up_trend |-> FALSE]
         ELSE st
    ELSE IF hs[i] >= hs[st.last_pivot]
         THEN [points |-> Append(PopLast(st.points), <<i, hs[i]>>),
               kinds |-> Append(PopLast(st.kinds), "high"),
               last_pivot |-> i, up_trend |-> FALSE]
         ELSE IF MoveReaches(hs[st.last_pivot], ls[i], th)
         THEN [points |-> Append(st.points, <<i, ls[i]>>),
               kinds |-> Append(st.kinds, "low"),
               last_pivot |-> i, up_trend |-> TRUE]
         ELSE st

\* for i in range(1, len(df))
RECURSIVE ZigzagLoop(_, _, _, _, _)
ZigzagLoop(st, i, ls, hs, th) ==
    IF i \notin DOMAIN ls THEN st
    ELSE ZigzagLoop(ZigzagStep(st, i, ls, hs, th), i + 1, ls, hs, th)

ZigzagStart ==
    [points |-> <<>>, kinds |-> <<>>, last_pivot |-> 0, up_trend |-> TRUE]

detect_zigzag(ls, hs, th) == ZigzagLoop(ZigzagStart, 1, ls, hs, th).points

(***************************************************************************)
(* WaveAnalyzer: chains of monowaves, each wave starting where the         *)
(* previous one ends, over the raw bars or over the pivots of              *)
(* detect_zigzag.  The result is the sequence of waves (wave1 .. waveN),   *)
(* or <<>> for the analyzer's False.                                       *)
(***************************************************************************)
Opposite(dir) == IF dir = "up" THEN "down" ELSE "up"

MonoWaveOf(ls, hs, dir, idx_start, skip) ==
    IF dir = "up" THEN MonoWaveUp(ls, hs, idx_start, skip)
    ELSE MonoWaveDown(ls, hs, idx_start, skip)

\* a chain that is returned although its last wave did not resolve
RECURSIVE ChainKeepsLast(_, _, _, _, _, _, _)
ChainKeepsLast(ls, hs, dir, idx_start, wave_config, n, acc) ==
    IF Len(acc) = n THEN acc
    ELSE LET w == MonoWaveOf(ls, hs, dir, idx_start, wave_config[Len(acc) + 1])
         IN  IF ~Resolved(w) /\ Len(acc) + 1 < n THEN <<>>
             ELSE ChainKeepsLast(ls, hs, Opposite(dir), w.idx_end, wave_config,
                                 n, Append(acc, w))

RECURSIVE Chain(_, _, _, _, _, _, _)
Chain(ls, hs, dir, idx_start, wave_config, n, acc) ==
    IF Len(acc) = n THEN acc
    ELSE LET w == MonoWaveOf(ls, hs, dir, idx_start, wave_config[Len(acc) + 1])
         IN  IF ~Resolved(w) THEN <<>>
             ELSE Chain(ls, hs, Opposite(dir), w.idx_end, wave_config,
                        n, Append(acc, w))

find_impulsive_wave(ls, hs, idx_start, wave_config) ==
    Chain(ls, hs, "up", idx_start, wave_config, 5, <<>>)

\* the first three entries of the configuration are used
find_corrective_wave(ls, hs, idx_start, wave_config) ==
    Chain(ls, hs, "down", idx_start, wave_config, 3, <<>>)

\* the pivots as a series of their own: row k is the k-th pivot, its low
\* and its high the pivot's price
PivotPrices(pts) == [k \in 0 .. Len(pts) - 1 |-> pts[k + 1][2]]

\* a wave over the rows of the pivots, at the bars of the pivots
OnBars(pts, w) ==
    LET bar(k) == IF k = NoneV THEN NoneV ELSE pts[k + 1][1]
    IN  [w EXCEPT !.idx_start = bar(w.idx_start),
                  !.idx_end = bar(w.idx_end),
                  !.low_idx = bar(w.low_idx),
                  !.high_idx = bar(w.high_idx)]

\* the chain of find_impulsive_wave over the pivots, from the first pivot
ZigzagChain(pts, wave_config) ==
    IF pts = <<>> THEN <<>>
    ELSE find_impulsive_wave(PivotPrices(pts), PivotPrices(pts), 0, wave_config)

\* find_impulsive_wave_zigzag(wave_config) of an analyzer built with the
\* threshold th
find_impulsive_wave_zigzag(ls, hs, th, wave_config) ==
    IF ZigzagChain(detect_zigzag(ls, hs, th), wave_config) = <<>> THEN <<>>
    ELSE [i \in 1 .. 5 |->
             OnBars(detect_zigzag(ls, hs, th),
                    ZigzagChain(detect_zigzag(ls, hs, th), wave_config)[i])]

(***************************************************************************)
(* WavePattern equality and hash, and the sets of accepted patterns.  A    *)
(* set is kept in insertion order; oid tells the pattern objects apart.    *)
(***************************************************************************)
WaveKey(w) == <<w.low, w.high, w.idx_start, w.idx_end>>

\* equality by object identity only
PatternIs(p, q) == p.oid = q.oid

PatternHash(p) ==
    <<p.idx_start, p.idx_end, [i \in DOMAIN p.waves |-> WaveKey(p.waves[i])]>>

PatternEq(p, q) == PatternHash(p) = PatternHash(q)

\* a membership test that never finds the pattern
NeverContains(S, p) == FALSE

\* p in S
Contains(S, p) ==
    \E i \in DOMAIN S : PatternHash(S[i]) = PatternHash(p) /\ PatternEq(S[i], p)

\* S.add(p)
SetAdd(S, p) ==
    IF \E i \in DOMAIN S : PatternHash(S[i]) = PatternHash(p) /\ PatternEq(S[i], p)
    THEN S ELSE Append(S, p)

(***************************************************************************)
(* The pattern search (main.py, wrapper.py).  One step is one iteration of *)
(* the option loop: analyzer call, pattern construction and the whole      *)
(* inner loop over the rules.                                              *)
(***************************************************************************)
SearchSkip == 1

\* the legs of the series searched: a rising five-wave move with a
\* three-leg pull-back, the legs of FreeLegs ranging over 1 .. MaxLeg
SearchTemplate == <<2, 1, 1, 1, 3, 1, 2, 2, 1, 2, 1>>

FreeLegs == {3, 9, 11}

SearchLegs ==
    {[i \in DOMAIN SearchTemplate |->
         IF i \in FreeLegs THEN f[i] ELSE SearchTemplate[i]] :
       f \in [FreeLegs -> 1 .. MaxLeg]}

\* closing prices of a zigzag: bar 0 at StartPrice, then one bar per leg
RECURSIVE ZigzagPrice(_, _)
ZigzagPrice(amps, k) ==
    IF k = 0 THEN StartPrice
    ELSE IF k % 2 = 1 THEN ZigzagPrice(amps, k - 1) + amps[k]
    ELSE ZigzagPrice(amps, k - 1) - amps[k]

Bars(amps) == [i \in 0 .. Len(amps) |-> ZigzagPrice(amps, i)]

\* the same prices after a first bar above StartPrice
LedBars(amps) ==
    [i \in 0 .. Len(amps) + 1 |->
        IF i = 0 THEN StartPrice + 1 ELSE ZigzagPrice(amps, i - 1)]

\* thresholds of the analyzer: the default 0.05, and 0.5
SearchThresholds == {5, 50}

\* rules_to_check of wrapper.py, and of main.py for each selection
WrapperRules ==
    <<WaveRule("Impulse1WaveLongest", DefaultXY),
      WaveRule("Impulse3WaveLongest", DefaultXY),
      WaveRule("Impulse5WaveLongest", DefaultXY),
      WaveRule("ExpandingDiagonal", DefaultXY),
      WaveRule("ContractingDiagonal", DefaultXY),
      WaveRule("Correction", DefaultXY)>>

RuleSelections ==
    {WrapperRules} \cup {<<WaveRule(cls, DefaultXY)>> : cls \in PracticalRules}

correction_rules_to_check == <<WaveRule("Correction", DefaultXY)>>

\* the generator after WaveOptionsGeneratorCustom5(up_to), up_from, populate()
SearchGen ==
    [n |-> 5, up_from |-> 0, up_to |-> SearchSkip,
     options |-> Product(5, 0, SearchSkip), fresh |-> TRUE]

\* the options taken from the last to the first
SearchOptionsReversed ==
    [i \in 1 .. Len(SearchGen.options) |->
        BySum(SearchGen.options, 0, 5 * SearchSkip)[Len(SearchGen.options) + 1 - i]]

SearchOptions == BySum(SearchGen.options, 0, 5 * SearchSkip)

\* a series of bars with a range: bars 2 and 4 are a local high and a
\* local low at once
WideBarSeries ==
    { [l |-> ZeroBased(<<10, 11, 13, 14, 14, 15, 16, 15>>),
       h |-> ZeroBased(<<11, 12, 15, 14, 16, 15, 17, 16>>)] }

SearchInit ==
    /\ \/ \E a \in SearchLegs : lows = Bars(a) /\ highs = Bars(a)
       \/ \E a \in SearchLegs : lows = LedBars(a) /\ highs = LedBars(a)
       \/ \E d \in WideBarSeries : lows = d.l /\ highs = d.h
    /\ threshold \in SearchThresholds
    /\ zigzag_points = NoZigzag
    /\ wave = NoWave
    /\ RuleIdle
    /\ gen = SearchGen
    /\ DiagonalsIdle
    /\ LevelIdle
    /\ rules_to_check \in RuleSelections
    /\ phase = "impulse"
    /\ cursor = 1
    /\ up_cursor = 0
    /\ call = NoCall
    /\ wavepatterns_up = <<>>
    /\ wavepatterns_down = <<>>
    /\ reported = <<>>
    /\ error = NoError

Report(kind, r, p) ==
    [kind |-> kind, rule |-> r.cls, oid |-> p.oid, key |-> PatternHash(p)]

\* the branch taken after check_rule returned res and left the pattern as p;
\* an exception raised by a condition leaves the loops with nothing added
RuleBranch(r, kind, st, res, p) ==
    IF res.err # NoError
    THEN [pattern |-> p, rule |-> r,
          checked |-> [done |-> TRUE, ok |-> res.ok, evaluated |-> res.evaluated],
          accepted |-> st.accepted,
          reported |-> st.reported,
          error |-> res.err]
    ELSE IF res.ok /\ ~Contains(st.accepted, p)
    THEN [pattern |-> p, rule |-> r,
          checked |-> [done |-> TRUE, ok |-> res.ok, evaluated |-> res.evaluated],
          accepted |-> SetAdd(st.accepted, p),
          reported |-> Append(st.reported, Report(kind, r, p)),
          error |-> NoError]
    ELSE [pattern |-> p, rule |-> r,
          checked |-> [done |-> TRUE, ok |-> res.ok, evaluated |-> res.evaluated],
          accepted |-> st.accepted,
          reported |-> st.reported,
          error |-> NoError]

\* a check that leaves the message of an earlier rule on the pattern
RuleCheckedKeepsFirst(r, kind, st, res) ==
    RuleBranch(r, kind, st, res,
               [st.pattern EXCEPT !.violation =
                   IF st.pattern.violation = "" THEN res.violation
                   ELSE st.pattern.violation])

RuleChecked(r, kind, st, res) ==
    RuleBranch(r, kind, st, res, [st.pattern EXCEPT !.violation = res.violation])

\* for rule in rules: check_rule, membership test, add and report
RECURSIVE RuleLoop(_, _, _, _)
RuleLoop(rules, i, kind, st) ==
    IF i > Len(rules) \/ st.error # NoError THEN st
    ELSE RuleLoop(rules, i + 1, kind,
                  RuleChecked(rules[i], kind, st, check_rule(st.pattern, rules[i])))

\* the set holds the pattern object: it shows the object's last violation
Refresh(st) ==
    [st EXCEPT !.accepted =
        [i \in DOMAIN st.accepted |->
            IF st.accepted[i].oid = st.pattern.oid THEN st.pattern
            ELSE st.accepted[i]]]

\* an iteration that starts over when the analyzer returns no pattern
IterationForgetting(waves, oid, rules, kind, accepted) ==
    IF waves # <<>>
    THEN Refresh(RuleLoop(rules, 1, kind,
                    [pattern |-> WavePattern(waves, oid), rule |-> rule,
                     checked |-> NotChecked, accepted |-> accepted,
                     reported |-> reported, error |-> NoError]))
    ELSE [pattern |-> NoPattern, rule |-> rule, checked |-> NotChecked,
          accepted |-> <<>>, reported |-> <<>>, error |-> NoError]

\* one iteration of the loop: waves is the analyzer's result
Iteration(waves, oid, rules, kind, accepted) ==
    IF waves # <<>>
    THEN Refresh(RuleLoop(rules, 1, kind,
                    [pattern |-> WavePattern(waves, oid), rule |-> rule,
                     checked |-> NotChecked, accepted |-> accepted,
                     reported |-> reported, error |-> NoError]))
    ELSE [pattern |-> NoPattern, rule |-> rule, checked |-> NotChecked,
          accepted |-> accepted, reported |-> reported, error |-> NoError]

ImpulseStep ==
    /\ phase = "impulse"
    /\ cursor <= Len(SearchOptions)
    /\ call' = [kind |-> "impulse", idx_start |-> NoneV,
                wave_config |-> SearchOptions[cursor]]
    /\ \E st \in {Iteration(find_impulsive_wave_zigzag(lows, highs, threshold,
                                                       SearchOptions[cursor]),
                            cursor, rules_to_check, "up", wavepatterns_up)} :
          /\ pattern' = st.pattern
          /\ rule' = st.rule
          /\ checked' = st.checked
          /\ wavepatterns_up' = st.accepted
          /\ reported' = st.reported
          /\ error' = st.error
          /\ phase' = IF st.error # NoError THEN "aborted" ELSE phase
    /\ cursor' = cursor + 1
    /\ UNCHANGED <<seriesVars, diagonals, level, wave, gen, rules_to_check, up_cursor,
                   wavepatterns_down>>

\* wavepatterns_up = list(wavepatterns_up): the set in some order
StartCorrective ==
    /\ phase = "impulse"
    /\ cursor > Len(SearchOptions)
    /\ \E perm \in Permutations(DOMAIN wavepatterns_up) :
          wavepatterns_up' = [i \in DOMAIN wavepatterns_up |-> wavepatterns_up[perm[i]]]
    /\ phase' = IF Len(wavepatterns_up) > 0 THEN "corrective" ELSE "done"
    /\ cursor' = 1
    /\ up_cursor' = 1
    /\ UNCHANGED <<seriesVars, diagonals, level, wave, pattern, rule, checked, gen, rules_to_check,
                   call, wavepatterns_down, reported, error>>

\* wrapper.py has no tab2: a corrective candidate that is charted (a new
\* accepted pattern, or a rejected one) ends the run with a NameError
\* after the pattern was added and reported; main.py defines tab2
Tab2Error(rules, accepted, st) ==
    IF st.error # NoError THEN st.error
    ELSE IF /\ rules = WrapperRules
       /\ st.pattern # NoPattern
       /\ ~(st.checked.ok /\ Len(st.accepted) = Len(accepted))
    THEN "NameError: name 'tab2' is not defined"
    ELSE NoError

CorrectiveStep ==
    /\ phase = "corrective"
    /\ call' = [kind |-> "corrective",
                idx_start |-> wavepatterns_up[up_cursor].idx_end,
                wave_config |-> SearchOptions[cursor]]
    /\ \E st \in {Iteration(find_corrective_wave(lows, highs,
                                                 wavepatterns_up[up_cursor].idx_end,
                                                 SearchOptions[cursor]),
                            up_cursor * Len(SearchOptions) + cursor,
                            correction_rules_to_check, "down", wavepatterns_down)} :
          /\ pattern' = st.pattern
          /\ rule' = st.rule
          /\ checked' = st.checked
          /\ wavepatterns_down' = st.accepted
          /\ reported' = st.reported
          /\ error' = Tab2Error(rules_to_check, wavepatterns_down, st)
          /\ phase' = IF Tab2Error(rules_to_check, wavepatterns_down, st) # NoError
                      THEN "aborted"
                      ELSE IF cursor = Len(SearchOptions)
                              /\ up_cursor = Len(wavepatterns_up)
                      THEN "done" ELSE "corrective"
    /\ cursor' = IF cursor = Len(SearchOptions) THEN 1 ELSE cursor + 1
    /\ up_cursor' = IF cursor = Len(SearchOptions) THEN up_cursor + 1 ELSE up_cursor
    /\ UNCHANGED <<seriesVars, diagonals, level, wave, gen, rules_to_check, wavepatterns_up>>

SearchNext == ImpulseStep \/ StartCorrective \/ CorrectiveStep

SpecSearch == SearchInit /\ [][SearchNext]_vars

(***************************************************************************)
(* Properties of the search.                                               *)
(***************************************************************************)
Range(sq) == {sq[i] : i \in DOMAIN sq}

\* same pattern bounds and same (low, high, idx_start, idx_end) per wave
Same(p, q) ==
    /\ p.idx_start = q.idx_start
    /\ p.idx_end = q.idx_end
    /\ Len(p.waves) = Len(q.waves)
    /\ \A i \in DOMAIN p.waves :
          /\ p.waves[i].low = q.waves[i].low
          /\ p.waves[i].high = q.waves[i].high
          /\ p.waves[i].idx_start = q.waves[i].idx_start
          /\ p.waves[i].idx_end = q.waves[i].idx_end

NoTwoSame(S) == \A i, j \in DOMAIN S : Same(S[i], S[j]) => i = j

ReportsOf(kind) == {i \in DOMAIN reported : reported[i].kind = kind}

\* the option that produced the pattern object
OptionOf(p) == SearchOptions[((p.oid - 1) % Len(SearchOptions)) + 1]

\* C6: neither accepted set ever holds two structurally identical
\* patterns, and every retained pattern is reported exactly once: a
\* candidate that passes the rule but equals a retained pattern is neither
\* added nor reported.
C6_AcceptedSetHasNoDuplicates ==
    /\ NoTwoSame(wavepatterns_up)
    /\ NoTwoSame(wavepatterns_down)
    /\ \A i, j \in DOMAIN reported :
          (reported[i].kind = reported[j].kind /\ reported[i].key = reported[j].key)
             => i = j
    /\ Cardinality(ReportsOf("up")) = Len(wavepatterns_up)
    /\ Cardinality(ReportsOf("down")) = Len(wavepatterns_down)

\* a candidate from another option passed the rule, equals a retained
\* pattern, and was neither added nor reported
C6_Witness ==
    /\ pattern # NoPattern
    /\ checked.ok
    /\ \E q \in Range(wavepatterns_down) :
          /\ Same(q, pattern)
          /\ q.oid # pattern.oid
          /\ OptionOf(q) # OptionOf(pattern)
    /\ \A q \in Range(wavepatterns_down) : q.oid # pattern.oid
    /\ \A i \in DOMAIN reported : reported[i].oid # pattern.oid

PresentPatterns ==
    (Range(wavepatterns_up) \cup Range(wavepatterns_down) \cup {pattern})
       \ {NoPattern}

\* C7: two patterns are equal, and have the same hash, exactly when they
\* have the same idx_start and idx_end and the same (low, high, idx_start,
\* idx_end) for every wave; the option that produced them plays no part.
C7_EqualityIsStructural ==
    \A p, q \in PresentPatterns :
       /\ PatternEq(p, q) <=> Same(p, q)
       /\ (PatternHash(p) = PatternHash(q)) <=> Same(p, q)

\* two pattern objects built from different options that are equal
C7_Witness ==
    \E p, q \in PresentPatterns :
       /\ p.oid # q.oid
       /\ OptionOf(p) # OptionOf(q)
       /\ PatternEq(p, q)
       /\ PatternHash(p) = PatternHash(q)

Contiguous(p) ==
    /\ \A n \in 1 .. (Len(p.waves) - 1) :
          p.waves[n].idx_end = p.waves[n + 1].idx_start
    /\ p.idx_start = p.waves[1].idx_start
    /\ p.idx_end = p.waves[Len(p.waves)].idx_end

\* C8: in every accepted pattern, of five waves or of three, each wave
\* ends where the next one starts, and the pattern starts with its first
\* wave and ends with its last.
C8_ChainContiguity ==
    /\ \A p \in Range(wavepatterns_up) : Len(p.waves) = 5 /\ Contiguous(p)
    /\ \A p \in Range(wavepatterns_down) : Len(p.waves) = 3 /\ Contiguous(p)

\* an impulse and a correction have both been accepted
C8_Witness ==
    /\ Len(wavepatterns_up) > 0
    /\ Len(wavepatterns_down) > 0
    /\ \E p \in Range(wavepatterns_up) : p.waves[3].skip_n > 0

\* how many links of the chain resolve, one after the other
RECURSIVE ResolvedLinks(_, _, _, _, _, _, _)
ResolvedLinks(ls, hs, dir, idx_start, wave_config, k, n) ==
    IF k > n THEN 0
    ELSE LET w == MonoWaveOf(ls, hs, dir, idx_start, wave_config[k])
         IN  IF Resolved(w)
             THEN 1 + ResolvedLinks(ls, hs, Opposite(dir), w.idx_end, wave_config,
                                    k + 1, n)
             ELSE 0

\* the pivots the analyzer walks
Pivots == detect_zigzag(lows, highs, threshold)

CallLinks ==
    IF call.kind = "impulse" THEN 5 ELSE 3

CallResolved ==
    IF call.kind = "impulse"
    THEN IF Pivots = <<>> THEN 0
         ELSE ResolvedLinks(PivotPrices(Pivots), PivotPrices(Pivots), "up", 0,
                            call.wave_config, 1, 5)
    ELSE ResolvedLinks(lows, highs, "down", call.idx_start, call.wave_config, 1, 3)

\* C9: after an analyzer call either every link resolved and the pattern
\* built has all its waves, each resolved, or some link failed and no
\* pattern was built or checked.
C9_CompleteChainOrNothing ==
    call.kind # "none" =>
       /\ CallResolved < CallLinks => (pattern = NoPattern /\ ~checked.done)
       /\ CallResolved = CallLinks =>
             (pattern # NoPattern /\ Len(pattern.waves) = CallLinks)
       /\ pattern # NoPattern => \A i \in DOMAIN pattern.waves : Resolved(pattern.waves[i])

\* a chain whose first links resolved and whose last link failed
C9_Witness ==
    /\ call.kind = "impulse"
    /\ CallResolved = 4
    /\ pattern = NoPattern
    /\ ~checked.done

\* the option printed with a report
ReportedOption(i) ==
    SearchOptions[((reported[i].oid - 1) % Len(SearchOptions)) + 1]

\* the pattern the analyzer builds for an option, as a structural key
\* (<<>> when the chain fails); corrections start at the key's idx_start
KeyOfOption(kind, idx_start, wave_config) ==
    IF kind = "up"
    THEN IF find_impulsive_wave_zigzag(lows, highs, threshold, wave_config) = <<>>
         THEN <<>>
         ELSE PatternHash(WavePattern(find_impulsive_wave_zigzag(lows, highs, threshold,
                                                                 wave_config), 0))
    ELSE IF find_corrective_wave(lows, highs, idx_start, wave_config) = <<>> THEN <<>>
         ELSE PatternHash(WavePattern(find_corrective_wave(lows, highs, idx_start,
                                                           wave_config), 0))

\* C13: the option reported with an accepted pattern is the earliest
\* option, in ascending sum then lexicographic order, that produces the
\* pattern; a later option that produces an equal pattern is not reported.
C13_EarliestOptionReported ==
    \A i \in DOMAIN reported :
       /\ KeyOfOption(reported[i].kind, reported[i].key[1], ReportedOption(i))
             = reported[i].key
       /\ \A c \in DOMAIN SearchGen.options :
             KeyOfOption(reported[i].kind, reported[i].key[1], SearchGen.options[c])
                = reported[i].key
             => ~Precedes(SearchGen.options[c], ReportedOption(i))
       /\ \A j \in DOMAIN reported :
             (reported[j].kind = reported[i].kind /\ reported[j].key = reported[i].key)
                => ReportedOption(j) = ReportedOption(i)

\* a later option gave a correction equal to one reported under an earlier
\* option; it passed the rule and was not reported
C13_Witness ==
    /\ call.kind = "corrective"
    /\ pattern # NoPattern
    /\ checked.ok
    /\ \A i \in DOMAIN reported : reported[i].oid # pattern.oid
    /\ \E i \in DOMAIN reported :
          /\ reported[i].kind = "down"
          /\ reported[i].key = PatternHash(pattern)
          /\ Precedes(ReportedOption(i), call.wave_config)
          /\ SeqSum(ReportedOption(i)) < SeqSum(call.wave_config)

\* the waves the analyzer returns for a call
WavesOfCall(kind, idx_start, wave_config) ==
    IF kind = "up" THEN find_impulsive_wave_zigzag(lows, highs, threshold, wave_config)
    ELSE find_corrective_wave(lows, highs, idx_start, wave_config)

PassesSome(rules, waves) ==
    \E i \in DOMAIN rules : check_rule(WavePattern(waves, 0), rules[i]).ok

\* the impulses of the series that pass a rule of rules_to_check
ExpectedUp ==
    {PatternHash(WavePattern(WavesOfCall("up", NoneV, o), 0)) :
       o \in {t \in Range(SearchGen.options) :
                 /\ WavesOfCall("up", NoneV, t) # <<>>
                 /\ PassesSome(rules_to_check, WavesOfCall("up", NoneV, t))}}

\* the corrections that start where an expected impulse ends
ExpectedDown ==
    {PatternHash(WavePattern(WavesOfCall("down", eo[1], eo[2]), 0)) :
       eo \in {x \in {k[2] : k \in ExpectedUp} \X Range(SearchGen.options) :
                  /\ WavesOfCall("down", x[1], x[2]) # <<>>
                  /\ PassesSome(correction_rules_to_check,
                                WavesOfCall("down", x[1], x[2]))}}

KeysOf(S) == {PatternHash(S[i]) : i \in DOMAIN S}

\* C14: the outcome of a search is a function of the series, the
\* threshold, the options and the rules: whatever order the accepted
\* impulses are taken in, a finished run holds the same accepted patterns, and a rejected candidate
\* carries the message of the rule's first failing condition on it.
C14_SearchIsDeterministic ==
    /\ (phase # "impulse" \/ cursor > Len(SearchOptions))
          => KeysOf(wavepatterns_up) = ExpectedUp
    /\ phase = "done" => KeysOf(wavepatterns_down) = ExpectedDown
    /\ (pattern # NoPattern /\ checked.done /\ ~checked.ok) =>
          /\ PatternHash(pattern)
                = KeyOfOption(IF call.kind = "impulse" THEN "up" ELSE "down",
                              call.idx_start, call.wave_config)
          /\ pattern.violation
                = check_rule(WavePattern(pattern.waves, 0), rule).violation
          /\ pattern.violation
                = message(rule, checked.evaluated[Len(checked.evaluated)])

\* a run that takes two accepted impulses in the opposite order of their
\* discovery; the candidate of the last call was rejected with a message
C14_Witness ==
    /\ phase = "corrective"
    /\ Len(wavepatterns_up) >= 2
    /\ wavepatterns_up[1].oid > wavepatterns_up[2].oid
    /\ KeysOf(wavepatterns_up) = ExpectedUp
    /\ pattern # NoPattern
    /\ checked.done
    /\ ~checked.ok
    /\ pattern.violation # ""

(***************************************************************************)
(* Calls of detect_zigzag.                                                 *)
(***************************************************************************)
ZigzagInit ==
    /\ \/ \E s \in Series :
             /\ lows = [i \in BarIdx |-> s[i][1]]
             /\ highs = [i \in BarIdx |-> s[i][2]]
       \/ \E d \in DeepSeries :
             /\ lows = d.l
             /\ highs = d.h
    /\ threshold \in Thresholds
    /\ zigzag_points = NoZigzag
    /\ wave = NoWave
    /\ RuleIdle
    /\ GenIdle
    /\ DiagonalsIdle
    /\ LevelIdle
    /\ SearchIdle

DetectZigzag ==
    /\ ~zigzag_points.returned
    /\ zigzag_points' = [returned |-> TRUE,
                         points |-> detect_zigzag(lows, highs, threshold)]
    /\ UNCHANGED <<lows, highs, threshold, diagonals, level, wave, pattern, rule,
                   checked, gen, searchVars>>

ZigzagNext == DetectZigzag

SpecZigzag == ZigzagInit /\ [][ZigzagNext]_vars

\* the branches that appended the points returned
KindsReturned == ZigzagLoop(ZigzagStart, 1, lows, highs, threshold).kinds

\* C16: the pivots returned alternate in kind, and every high pivot is
\* priced above the low pivot before it and the low pivot after it.
C16_PivotsAlternate ==
    zigzag_points.returned =>
       \E ps \in {zigzag_points.points}, ks \in {KindsReturned} :
          /\ Len(ks) = Len(ps)
          /\ \A k \in 1 .. (Len(ps) - 1) :
                /\ ks[k] # ks[k + 1]
                /\ ks[k] = "high" => ps[k][2] > ps[k + 1][2]
                /\ ks[k] = "low" => ps[k][2] < ps[k + 1][2]

\* four pivots returned for a series of six bars, the first of them a low
C16_Witness ==
    /\ zigzag_points.returned
    /\ Len(zigzag_points.points) >= 4
    /\ KindsReturned[1] = "low"
    /\ KindsReturned[2] = "high"
    /\ zigzag_points.points[2][2] > zigzag_points.points[3][2]

\* C17: every two consecutive pivots differ by more than the threshold:
\* high / low - 1 is strictly greater than the threshold.
C17_CommitStrictlyAboveThreshold ==
    zigzag_points.returned =>
       \E ps \in {zigzag_points.points}, ks \in {KindsReturned} :
          \A k \in 1 .. (Len(ps) - 1) :
             /\ ks[k] = "low" => 100 * (ps[k + 1][2] - ps[k][2]) > threshold * ps[k][2]
             /\ ks[k] = "high" => 100 * (ps[k][2] - ps[k + 1][2]) > threshold * ps[k + 1][2]

(***************************************************************************)
(* calculate_diagonals_length on two waves of any width and height, a wave *)
(* of no width (MonoWaveUp.from_dataframe) or no height (a flat bar)       *)
(* included.                                                               *)
(***************************************************************************)
MaxWidth == 2
MaxHeight == 2

LengthWaves ==
    {LegWave(dir, 0, d, StartPrice,
             IF dir = "up" THEN StartPrice + h ELSE StartPrice - h) :
       dir \in {"up", "down"}, d \in 0 .. MaxWidth, h \in 0 .. MaxHeight}

LengthInit ==
    /\ SeriesIdle
    /\ \E a \in LengthWaves, b \in LengthWaves, r \in {DefaultXY, ToolsDefaultXY} :
          diagonals = [called |-> FALSE, wave1 |-> a, wave2 |-> b,
                       x_to_y_ratio |-> r, raised |-> FALSE, len1 |-> 0, len2 |-> 0]
    /\ LevelIdle
    /\ RuleIdle
    /\ GenIdle
    /\ SearchIdle

\* the call: the two lengths (as squares over the common denominator), or
\* the ZeroDivisionError of the normalisation or of the printed ratio
CalculateDiagonalsLength ==
    /\ ~diagonals.called
    /\ \E d \in {calculate_diagonals_length(diagonals.wave1, diagonals.wave2,
                                             diagonals.x_to_y_ratio)} :
          diagonals' = [diagonals EXCEPT !.called = TRUE,
                                         !.raised = d.err,
                                         !.len1 = IF d.err THEN 0 ELSE d.len1,
                                         !.len2 = IF d.err THEN 0 ELSE d.len2]
    /\ UNCHANGED <<seriesVars, level, wave, pattern, rule, checked, gen, searchVars>>

LengthNext == CalculateDiagonalsLength

SpecLength == LengthInit /\ [][LengthNext]_vars

\* span of a wave: |end price - start price|
Span(w) == Abs(points(w)[2] - points(w)[1])

\* the square of the specified value for wave w of the pair (a, b), times
\* (10 * max duration * max span)^2, with the ratio r in tenths
SpecifiedSquare(w, a, b, r) ==
    (r * duration(w) * Max2(Span(a), Span(b)))
       * (r * duration(w) * Max2(Span(a), Span(b)))
    + (10 * Span(w) * Max2(duration(a), duration(b)))
       * (10 * Span(w) * Max2(duration(a), duration(b)))

SquareDen(a, b) ==
    (10 * Max2(duration(a), duration(b)) * Max2(Span(a), Span(b)))
       * (10 * Max2(duration(a), duration(b)) * Max2(Span(a), Span(b)))

\* the wave with its duration multiplied by kx and its span by ky
Scaled(w, kx, ky) ==
    LegWave(w.dir, w.idx_start, w.idx_start + kx * duration(w), points(w)[1],
            IF w.dir = "up" THEN points(w)[1] + ky * Span(w)
            ELSE points(w)[1] - ky * Span(w))

\* the value returned for the pair (a, b) equals the value for (c, d)
SameLengths(a, b, c, d, r) ==
    /\ ~calculate_diagonals_length(c, d, r).err
    /\ FracEq(calculate_diagonals_length(a, b, r).len1, SquareDen(a, b),
              calculate_diagonals_length(c, d, r).len1, SquareDen(c, d))
    /\ FracEq(calculate_diagonals_length(a, b, r).len2, SquareDen(a, b),
              calculate_diagonals_length(c, d, r).len2, SquareDen(c, d))

\* what C18 says of a call that returned
ReturnsNormalised ==
    /\ ~diagonals.raised
    /\ diagonals.len1 = SpecifiedSquare(diagonals.wave1, diagonals.wave1,
                                        diagonals.wave2, diagonals.x_to_y_ratio)
    /\ diagonals.len2 = SpecifiedSquare(diagonals.wave2, diagonals.wave1,
                                        diagonals.wave2, diagonals.x_to_y_ratio)
    /\ \A k \in {2, 3} :
          /\ SameLengths(diagonals.wave1, diagonals.wave2,
                         Scaled(diagonals.wave1, k, 1), Scaled(diagonals.wave2, k, 1),
                         diagonals.x_to_y_ratio)
          /\ SameLengths(diagonals.wave1, diagonals.wave2,
                         Scaled(diagonals.wave1, 1, k), Scaled(diagonals.wave2, 1, k),
                         diagonals.x_to_y_ratio)
    /\ calculate_diagonals_length(diagonals.wave2, diagonals.wave1,
                                  diagonals.x_to_y_ratio).len1 = diagonals.len2
    /\ calculate_diagonals_length(diagonals.wave2, diagonals.wave1,
                                  diagonals.x_to_y_ratio).len2 = diagonals.len1

\* C18: for two waves with positive maximum duration and positive maximum
\* span the call returns, for each wave, the value whose square is
\* (x_to_y_ratio * duration / max duration)^2 + (span / max span)^2; the
\* result does not change when both durations or both spans are multiplied
\* by a common factor, and swapping the arguments swaps the results.
C18_DiagonalsLengthNormalised ==
    (/\ diagonals.called
     /\ Max2(duration(diagonals.wave1), duration(diagonals.wave2)) > 0
     /\ Max2(Span(diagonals.wave1), Span(diagonals.wave2)) > 0)
       => ReturnsNormalised

\* C24: given two waves whose durations are both zero, or whose spans are
\* both zero, calculate_diagonals_length returns (no division error), and a
\* wave with neither duration nor span has length 0.
C24_DegenerateWavesScoreZero ==
    (/\ diagonals.called
     /\ \/ Max2(duration(diagonals.wave1), duration(diagonals.wave2)) = 0
        \/ Max2(Span(diagonals.wave1), Span(diagonals.wave2)) = 0)
       => /\ ~diagonals.raised
          /\ (duration(diagonals.wave1) = 0 /\ Span(diagonals.wave1) = 0)
                => diagonals.len1 = 0
          /\ (duration(diagonals.wave2) = 0 /\ Span(diagonals.wave2) = 0)
                => diagonals.len2 = 0

(***************************************************************************)
(* Every way a monowave is made: the MonoWaveUp / MonoWaveDown             *)
(* constructors, the from_dataframe class methods of the two classes and   *)
(* of the base class, and from_wavepattern.                                *)
(***************************************************************************)
\* MonoWave.from_dataframe of the base class: ValueError (no wave) for the
\* last row; the row's own low and high, idx_end as __init__ left it
MonoWave_from_dataframe(ls, hs, idx) ==
    IF idx >= Cardinality(DOMAIN ls) - 1 THEN NoWave
    ELSE [dir |-> "mono", skip_n |-> 0, idx_start |-> idx, idx_end |-> NoneV,
          low |-> ls[idx], high |-> hs[idx], low_idx |-> idx, high_idx |-> idx]

\* MonoWave.from_wavepattern called on the class cls: a wave over dummy
\* arrays from index 0, idx_end unset, the low and the high taken from the
\* first and the last wave of the pattern; ValueError (no wave) for a
\* pattern of neither 5 nor 3 waves
MonoWave_from_wavepattern(cls, p) ==
    IF Len(p.waves) = 5
    THEN [dir |-> cls, skip_n |-> 0, idx_start |-> 0, idx_end |-> NoneV,
          low |-> p.waves[1].low, high |-> p.waves[5].high,
          low_idx |-> p.waves[1].low_idx, high_idx |-> p.waves[5].high_idx]
    ELSE IF Len(p.waves) = 3
    THEN [dir |-> cls, skip_n |-> 0, idx_start |-> 0, idx_end |-> NoneV,
          low |-> p.waves[3].low, high |-> p.waves[1].high,
          low_idx |-> p.waves[3].low_idx, high_idx |-> p.waves[1].high_idx]
    ELSE NoWave

\* MonoWaveUp.from_dataframe: IndexError (no wave) for the last row
MonoWaveUp_from_dataframe(ls, hs, idx) ==
    IF idx >= Cardinality(DOMAIN ls) - 1 THEN NoWave
    ELSE [dir |-> "up", skip_n |-> 0, idx_start |-> idx, idx_end |-> idx,
          low |-> ls[idx], high |-> hs[idx], low_idx |-> idx, high_idx |-> idx]

\* MonoWaveDown.from_dataframe: the row and the next row; low_idx and
\* high_idx are positions in the two-row arrays
MonoWaveDown_from_dataframe(ls, hs, idx) ==
    IF idx >= Cardinality(DOMAIN ls) - 1 THEN NoWave
    ELSE [dir |-> "down", skip_n |-> 0, idx_start |-> idx, idx_end |-> idx + 1,
          low |-> Min({ls[idx], ls[idx + 1]}),
          high |-> Max({hs[idx], hs[idx + 1]}),
          low_idx |-> IF ls[idx] <= ls[idx + 1] THEN 0 ELSE 1,
          high_idx |-> IF hs[idx] >= hs[idx + 1] THEN 0 ELSE 1]

UpFromDataframe ==
    \E i \in DOMAIN lows :
       /\ wave = NoWave
       /\ wave' = MonoWaveUp_from_dataframe(lows, highs, i)
       /\ UNCHANGED <<seriesVars, diagonals, level, pattern, rule, checked, gen, searchVars>>

DownFromDataframe ==
    \E i \in DOMAIN lows :
       /\ wave = NoWave
       /\ wave' = MonoWaveDown_from_dataframe(lows, highs, i)
       /\ UNCHANGED <<seriesVars, diagonals, level, pattern, rule, checked, gen, searchVars>>

BaseFromDataframe ==
    \E i \in DOMAIN lows :
       /\ wave = NoWave
       /\ wave' = MonoWave_from_dataframe(lows, highs, i)
       /\ UNCHANGED <<seriesVars, diagonals, level, pattern, rule, checked, gen, searchVars>>

\* the pattern is a chain the analyzer found on the series
FromWavepattern ==
    \E i \in DOMAIN lows, cls \in {"mono", "up", "down"} :
       /\ wave = NoWave
       /\ \E waves \in {find_impulsive_wave(lows, highs, i, <<0, 0, 0, 0, 0>>),
                         find_corrective_wave(lows, highs, i, <<0, 0, 0>>)} :
             /\ waves # <<>>
             /\ wave' = MonoWave_from_wavepattern(cls, WavePattern(waves, 0))
       /\ UNCHANGED <<seriesVars, diagonals, level, pattern, rule, checked, gen, searchVars>>

ConstructNext ==
    \/ NewMonoWaveUp
    \/ NewMonoWaveDown
    \/ UpFromDataframe
    \/ DownFromDataframe
    \/ BaseFromDataframe
    \/ FromWavepattern

SpecConstruct == WaveInit /\ [][ConstructNext]_vars

\* C19: every resolved monowave, from a constructor or from
\* from_dataframe, has idx_start < idx_end, so a positive duration.
C19_ResolvedWaveHasDuration ==
    Resolved(wave) => (wave.idx_start < wave.idx_end /\ duration(wave) > 0)

\* C20: a run of wrapper.find_impulsive goes through the impulse phase and
\* the corrective phase without an exception, whatever is found.
C20_WrapperRunCompletes ==
    rules_to_check = WrapperRules => (error = NoError /\ phase # "aborted")



(***************************************************************************)
(* Calls of calculate_fibonacci_level.  Prices are ints, the ratio is the  *)
(* float of a decimal literal given in thousandths, the mode is one of the *)
(* two names or another string.                                            *)
(***************************************************************************)
FibMaxPrice == 3

FibPrices ==
    ((0 .. FibMaxPrice) \X (0 .. FibMaxPrice))
        \cup {<<100, 200>>, <<2, 21>>, <<4, 15>>}

FibRatios == {200, 240, 300, 500, 618, 1000, 1550, 1618, 2618}

FibModes == {"low_to_high", "high_to_low", "up"}

FibInit ==
    /\ SeriesIdle
    /\ DiagonalsIdle
    /\ \E p \in FibPrices, k \in FibRatios, m \in FibModes :
          level = [called |-> FALSE, low |-> p[1], high |-> p[2],
                   fib_ratio |-> k, mode |-> m,
                   raised |-> FALSE, value |-> FromInt(0)]
    /\ RuleIdle
    /\ GenIdle
    /\ SearchIdle

\* the call: the level, or the ValueError of an unknown mode
CalculateFibonacciLevel ==
    /\ ~level.called
    /\ \E r \in {calculate_fibonacci_level(level.low, level.high,
                                 DoubleOf(level.fib_ratio, 1000), level.mode)} :
          level' = [level EXCEPT !.called = TRUE,
                                 !.raised = r.raised,
                                 !.value = r.value]
    /\ UNCHANGED <<seriesVars, diagonals, wave, pattern, rule, checked, gen, searchVars>>

FibNext == CalculateFibonacciLevel

SpecFib == FibInit /\ [][FibNext]_vars

\* x is within 2^-40 of the rational num / den (0 < den < 2^14)
Near(x, num, den) ==
    ~BigLess(BigMul(PowerOfTwo(LimbBits * ScaleLimbs - 40), den),
             ExactAdd(Float(x.neg, BigMul(x.mag, den)), FromInt(0 - num)).mag)

\* the level in exact arithmetic, in thousandths
ExactLevel(low, high, k, mode) ==
    IF mode = "low_to_high" THEN 1000 * low + (high - low) * k
    ELSE 1000 * high - (high - low) * k

\* C21: calculate_fibonacci_level returns low + (high - low) * ratio for
\* low_to_high and high - (high - low) * ratio for high_to_low (the float
\* nearest to it within rounding; 170 for (100, 200, 0.3, high_to_low)), and
\* for any other mode it raises and returns no level.
C21_FibonacciLevel ==
    level.called =>
        /\ level.raised <=> level.mode \notin {"low_to_high", "high_to_low"}
        /\ level.raised => level.value = FromInt(0)
        /\ ~level.raised =>
              Near(level.value,
                   ExactLevel(level.low, level.high, level.fib_ratio, level.mode), 1000)
        /\ (level.low = 100 /\ level.high = 200 /\ level.fib_ratio = 300
            /\ level.mode = "high_to_low") => level.value = FromInt(170)

C21_Witness ==
    /\ level.called
    /\ level.low = 100 /\ level.high = 200 /\ level.fib_ratio = 300
    /\ level.mode = "high_to_low"
    /\ ~level.raised
    /\ level.value = FromInt(170)

\* the sum of the two levels for the arguments of the call
LevelsSum(low, high, fib_ratio) ==
    FloatAdd(calculate_fibonacci_level(low, high, fib_ratio, "low_to_high").value,
             calculate_fibonacci_level(low, high, fib_ratio, "high_to_low").value)

\* C22 as stated: the low_to_high level plus the high_to_low level equals
\* low + high, for all low, high and ratio.
C22_LevelsSumToLowPlusHigh ==
    level.called =>
        LevelsSum(level.low, level.high, DoubleOf(level.fib_ratio, 1000))
            = FromInt(level.low + level.high)

\* C22 amended: the low_to_high level plus the high_to_low level equals
\* low + high up to the rounding of the float operations (within 2^-40), and
\* exactly when the ratio is 0.5 or 1.
C22_LevelsSumWithinRounding ==
    level.called =>
        /\ Near(LevelsSum(level.low, level.high, DoubleOf(level.fib_ratio, 1000)),
                level.low + level.high, 1)
        /\ level.fib_ratio \in {500, 1000} =>
              LevelsSum(level.low, level.high, DoubleOf(level.fib_ratio, 1000))
                  = FromInt(level.low + level.high)

C22_Witness ==
    /\ level.called
    /\ level.low = 2 /\ level.high = 21 /\ level.fib_ratio = 1618
    /\ LevelsSum(2, 21, DoubleOf(1618, 1000)) # FromInt(23)
    /\ Near(LevelsSum(2, 21, DoubleOf(1618, 1000)), 23, 1)


(***************************************************************************)
(* Further properties of monowave construction (SpecWave).                 *)
(***************************************************************************)
\* skip iteration k of a down-wave from idx_start adopts a strictly lower
\* low after passing a high above the starting high
AdoptsPastHigherHigh(idx_start, k) ==
    /\ DownChain(lows, highs, idx_start, k).found
    /\ DownChain(lows, highs, idx_start, k).val
          < DownChain(lows, highs, idx_start, k - 1).val
    /\ \E i \in idx_start .. (DownChain(lows, highs, idx_start, k).idx - 1) :
          highs[i] > highs[idx_start]

\* C23: a down-wave whose skip iteration adopts a strictly lower low at j
\* fails (no value, no index, idx_end unresolved) when a high of
\* idx_start .. j-1 is above the starting high; so a resolved down-wave that
\* advanced its low by a skip has no high above its starting high between
\* idx_start and low_idx.
C23_NoOvershootAfterSkip ==
    (wave.dir = "down" /\ wave.skip_n >= 1) =>
        /\ (\E k \in 1 .. wave.skip_n : AdoptsPastHigherHigh(wave.idx_start, k))
              => (wave.low = NoneV /\ wave.low_idx = NoneV /\ wave.idx_end = NoneV)
        /\ (Resolved(wave) /\ wave.low_idx # lo(lows, highs, wave.idx_start).idx)
              => \A i \in wave.idx_start .. (wave.low_idx - 1) :
                    highs[i] <= highs[wave.idx_start]

\* a down-wave with skip 1 whose skip found a lower low behind a higher high
C23_Witness ==
    /\ wave.dir = "down"
    /\ wave.skip_n = 1
    /\ AdoptsPastHigherHigh(wave.idx_start, 1)
    /\ wave.idx_end = NoneV

\* C27: with skip 0 a wave ends at the first local extremum the locator
\* returns, whatever the bars before it; an up-wave has low = lows[idx_start],
\* low_idx = idx_start and idx_end = high_idx.  On Low = [10,10,8,8,12,12],
\* High = [11,11,9,15,13,20] from bar 0 the up-wave has high 11 at bar 0 or 1
\* and low 10.
C27_SkipZeroIsFirstExtremum ==
    /\ (wave.dir = "up" /\ wave.skip_n = 0) =>
          /\ wave.high = hi(lows, highs, wave.idx_start).val
          /\ wave.high_idx = hi(lows, highs, wave.idx_start).idx
          /\ wave.idx_end = wave.high_idx
          /\ wave.low = lows[wave.idx_start]
          /\ wave.low_idx = wave.idx_start
    /\ (wave.dir = "down" /\ wave.skip_n = 0) =>
          /\ wave.low = lo(lows, highs, wave.idx_start).val
          /\ wave.low_idx = lo(lows, highs, wave.idx_start).idx
          /\ wave.idx_end = wave.low_idx
    /\ (/\ wave.dir = "up" /\ wave.skip_n = 0 /\ wave.idx_start = 0
        /\ lows = ZeroBased(<<10, 10, 8, 8, 12, 12>>)
        /\ highs = ZeroBased(<<11, 11, 9, 15, 13, 20>>)) =>
          /\ wave.high = 11
          /\ wave.high_idx \in {0, 1}
          /\ wave.low = 10

\* the up-wave of the six-bar scenario
C27_Witness ==
    /\ wave.dir = "up" /\ wave.skip_n = 0 /\ wave.idx_start = 0
    /\ lows = ZeroBased(<<10, 10, 8, 8, 12, 12>>)
    /\ highs = ZeroBased(<<11, 11, 9, 15, 13, 20>>)
    /\ wave.high = 11
    /\ wave.high_idx = 1
    /\ wave.idx_end = 1


(***************************************************************************)
(* The five practical archetypes checked on the same five-wave patterns    *)
(* with the same x_y_ratio (wrapper.py, main.py: every rule of             *)
(* rules_to_check gets the x_y_ratio of the input field, 1.2 to 2.5).      *)
(* Thrusts (waves 1, 3, 5) range over 2 .. MaxThrust, retracements over    *)
(* Retraces, every wave lasts one or two bars.                             *)
(***************************************************************************)
MaxThrust == 5

Retraces == {1, 2}

ArchetypeLegs ==
    {a \in [1 .. 5 -> 1 .. MaxThrust] :
        /\ \A i \in {1, 3, 5} : a[i] >= 2
        /\ \A i \in {2, 4} : a[i] \in Retraces}

ArchetypeInit ==
    /\ SeriesIdle
    /\ \/ \E a \in ArchetypeLegs, g \in [1 .. 5 -> {1, 2}] :
             pattern = WavePattern(Zigzag("up", 0, StartPrice, a, g), 1)
       \/ \E a \in ArchetypeLegs, g \in ZeroRetraceGaps :
             /\ ZeroRetrace(a, g)
             /\ pattern = WavePattern(WithSkips(Zigzag("up", 0, StartPrice, a, g),
                                                ZeroRetraceSkips(g)), 1)
    /\ rule = NoRule
    /\ checked = NotChecked
    /\ GenIdle
    /\ DiagonalsIdle
    /\ LevelIdle
    /\ SearchIdle

\* a practical rule with the x_y_ratio of the input field
NewPracticalRule ==
    /\ rule = NoRule
    /\ \E cls \in PracticalRules, x \in {DefaultXY} \cup XYRatios :
          rule' = WaveRule(cls, x)
    /\ UNCHANGED <<seriesVars, diagonals, level, wave, pattern, checked, gen, searchVars>>

ArchetypeNext == NewPracticalRule \/ CheckRule

SpecArchetype == ArchetypeInit /\ [][ArchetypeNext]_vars

\* the practical archetypes other than cls that accept the waves with x_y_ratio
AlsoAccepting(waves, cls, x_y_ratio) ==
    {c \in PracticalRules \ {cls} :
        check_rule(WavePattern(waves, 1), WaveRule(c, x_y_ratio)).ok}

\* C25: with the same x_y_ratio for all rules (1.2 to 2.5), a five-wave
\* pattern accepted by one of Impulse1WaveLongest, Impulse3WaveLongest,
\* Impulse5WaveLongest, ExpandingDiagonal and ContractingDiagonal is accepted
\* by no other of them.
C25_ArchetypesExclusive ==
    (checked.done /\ checked.ok /\ rule.cls \in PracticalRules) =>
        AlsoAccepting(pattern.waves, rule.cls, rule.x_y_ratio) = {}

\* an accepted expanding diagonal that Impulse5WaveLongest rejects only at
\* its wave-4 condition
LastEvaluated(res) == res.evaluated[Len(res.evaluated)]

C25_Witness ==
    /\ checked.done /\ checked.ok
    /\ rule.cls = "ExpandingDiagonal"
    /\ LastEvaluated(check_rule(pattern,
                                WaveRule("Impulse5WaveLongest", rule.x_y_ratio))) = "w4_1"
    /\ AlsoAccepting(pattern.waves, rule.cls, rule.x_y_ratio) = {}


(***************************************************************************)
(* The accepted set after the rule loop of one candidate.                  *)
(***************************************************************************)
\* C26: in wrapper.find_impulsive a pattern is in the accepted set only if
\* it carries no violation message: once the impulse loop has ended, every
\* pattern of wavepatterns_up has an empty violation.
C26_AcceptedCarryNoViolation ==
    (rules_to_check = WrapperRules /\ phase # "impulse")
       => \A p \in Range(wavepatterns_up) : p.violation = ""


(***************************************************************************)
(* The scan of detect_zigzag, step by step.                                *)
(***************************************************************************)
\* the scan after the iterations for bars 1 .. k
ScanAfter(k) ==
    ZigzagLoop(ZigzagStart, 1, [j \in 0 .. k |-> lows[j]],
               [j \in 0 .. k |-> highs[j]], threshold)

\* the iteration for bar k appended a pivot in the trend it found
Continuation(before, after, k) ==
    /\ after.last_pivot = k
    /\ after.up_trend = before.up_trend
    /\ before.points # <<>>

StepInvariant(before, after, k) ==
    /\ \A a, b \in DOMAIN after.points :
          a < b => after.points[a][1] < after.points[b][1]
    /\ \A a \in DOMAIN after.points : after.points[a][1] >= 1
    /\ after.points # <<>> =>
          after.points[Len(after.points)][1] = after.last_pivot
    /\ Len(after.points) <= k
    /\ Continuation(before, after, k) =>
          /\ Len(after.points) = Len(before.points)
          /\ \A a \in 1 .. (Len(before.points) - 1) :
                after.points[a] = before.points[a]
          /\ before.points[Len(before.points)][1] = before.last_pivot

\* C28: after every iteration of the scan the pivot indices are strictly
\* increasing and at least 1 (bar 0 is never a pivot), a non-empty list
\* ends with the bar at last_pivot, a continuation replaces exactly the
\* pivot it extends, and the list returned has at most len(df) - 1 pivots.
C28_ScanStepInvariant ==
    zigzag_points.returned =>
       /\ \A k \in DOMAIN lows \ {0} :
             StepInvariant(ScanAfter(k - 1), ScanAfter(k), k)
       /\ zigzag_points.points = ScanAfter(Cardinality(DOMAIN lows) - 1).points
       /\ Len(zigzag_points.points) <= Cardinality(DOMAIN lows) - 1

\* bar 0 holds the lowest low alone, and a later bar replaced the pivot
\* before it in a list that ends with two pivots or more
C28_Witness ==
    /\ zigzag_points.returned
    /\ \A j \in DOMAIN lows \ {0} : lows[j] > lows[0]
    /\ Len(zigzag_points.points) >= 2
    /\ \E k \in DOMAIN lows \ {0} :
          /\ Continuation(ScanAfter(k - 1), ScanAfter(k), k)
          /\ Len(ScanAfter(k).points) >= 2


(***************************************************************************)
(* What a rule check leaves alone.                                         *)
(***************************************************************************)
\* the attributes of a wave that the predicates read
Attributes(w) ==
    [low |-> w.low, high |-> w.high, idx_start |-> w.idx_start,
     idx_end |-> w.idx_end, duration |-> duration(w), length |-> length(w)]

SameWaves(p, q) ==
    /\ DOMAIN p.waves = DOMAIN q.waves
    /\ \A i \in DOMAIN p.waves : Attributes(p.waves[i]) = Attributes(q.waves[i])

\* C29: a check changes nothing except the pattern's violation: every
\* wave's low, high, idx_start, idx_end, duration and length, the rule's
\* condition table and its x_y_ratio are the same after check_rule as
\* before, whether the check passes or fails.
C29_CheckRuleFrame ==
    [][(~checked.done /\ checked'.done) =>
          /\ SameWaves(pattern, pattern')
          /\ pattern'.idx_start = pattern.idx_start
          /\ pattern'.idx_end = pattern.idx_end
          /\ pattern'.oid = pattern.oid
          /\ conditions(rule') = conditions(rule)
          /\ rule'.x_y_ratio = rule.x_y_ratio
          /\ rule'.cls = rule.cls]_vars

\* a failed check of Impulse1WaveLongest that stopped at a condition on
\* diagonal lengths, on a pattern with a wave of more than one bar
C29_Witness ==
    /\ checked.done
    /\ ~checked.ok
    /\ rule.cls = "Impulse1WaveLongest"
    /\ LastEvaluated(checked) = "w3_2"
    /\ pattern.violation = Impulse1WaveLongestMessage("w3_2")
    /\ \E i \in DOMAIN pattern.waves : duration(pattern.waves[i]) > 1


(***************************************************************************)
(* The impulse loop over the options of the generator.                     *)
(***************************************************************************)
\* the analyzer returns no pattern for the option
NoPatternFor(c) ==
    find_impulsive_wave_zigzag(lows, highs, threshold, c.wave_config) = <<>>

\* an iteration of the impulse loop: the next option of the sorted list
NextOptionEvaluated ==
    /\ cursor <= number(gen)
    /\ cursor' = cursor + 1
    /\ call'.kind = "impulse"
    /\ call'.wave_config = options_sorted(gen)[cursor]
    /\ error' = NoError
    /\ NoPatternFor(call') =>
          /\ pattern' = NoPattern
          /\ wavepatterns_up' = wavepatterns_up
          /\ reported' = reported

\* the loop is left after the last option, with the patterns it collected
LoopLeft ==
    /\ cursor = number(gen) + 1
    /\ phase' \in {"corrective", "done"}
    /\ Range(wavepatterns_up') = Range(wavepatterns_up)
    /\ reported' = reported
    /\ error' = NoError

\* C30: the impulse loop evaluates each option of the populated generator
\* once, in the order of options_sorted, and then stops; an option for
\* which the analyzer returns no pattern leaves the accepted set and the
\* earlier reports unchanged and does not end the loop.
C30_EachOptionOnceInOrder ==
    [][phase = "impulse" =>
          /\ phase' = "impulse" => NextOptionEvaluated
          /\ phase' # "impulse" => LoopLeft]_vars


\* after an accepted pattern an option gave no pattern, and the loop went
\* on to the last option and ended with the pattern still in the set
C30_Witness ==
    /\ phase = "impulse"
    /\ cursor = number(gen) + 1
    /\ call.wave_config = options_sorted(gen)[number(gen)]
    /\ NoPatternFor(call)
    /\ pattern = NoPattern
    /\ Len(wavepatterns_up) > 0
    /\ Len(reported) > 0

========================================================================
